---- MODULE Spec2Model ----
(***************************************************************************)
(* Verification model of the packaging manifest (MANIFEST.in), the         *)
(* pre-commit configuration and the data-loading notebooks of yt.          *)
(*                                                                         *)
(* A path, a file name and a pattern are sequences of one-character        *)
(* strings, so that glob and regular-expression matching are computed      *)
(* character by character.  Each artefact has its own specification; the   *)
(* variables of the other artefacts stay at their idle values.             *)
(***************************************************************************)
EXTENDS Integers, Sequences, FiniteSets, TLC

VARIABLES
    allfiles,         \* MANIFEST.in: the files that exist in the source tree
    files,            \* MANIFEST.in: the files shipped so far (the file list)
    line,             \* MANIFEST.in: index into Manifest of the next command
    staged,           \* pre-commit: the files of the commit
    hook,             \* pre-commit: index into Hooks of the next hook to run
    received,         \* pre-commit: the files each hook was run on
    f,                \* FITS example: the HDUs of the opened file
    data,             \* FITS example: the data dictionary
    hdu,              \* FITS example: index in f of the next HDU of the loop
    fitsCell,         \* FITS example: the statement to run next
    ppx,              \* particle example: x positions, in units of 5e5
    ppy,              \* particle example: y positions, in units of 5e5
    ppz,              \* particle example: z positions, in units of 5e5
    ppm,              \* particle example: masses, in units of 0.1
    particle_data,    \* particle example: the dictionary named data
    bbox,             \* particle example: the bounding box, in units of 5e4
    ds,               \* particle example: what the first load_particles got
    data2,            \* particle example: the dictionary of both particle types
    ds2,              \* particle example: what the second load_particles got
    particleCell,     \* particle example: the cell to run next
    grid_data,        \* AMR example: the list of grid dictionaries
    g,                \* AMR example: index of the next grid of the density loop
    amr_ds,           \* AMR example: the dataset load_amr_grids returned
    amrCell,          \* AMR example: the cell to run next
    arr_shape,        \* unigrid example: the shape of the array arr
    nprocs,           \* unigrid example: the nprocs argument of load_uniform_grid
    uni_ds,           \* unigrid example: the grids load_uniform_grid created
    uniCell,          \* unigrid example: the cell to run next
    orbit_dir,        \* trajectories: the names of the files in the Orbit directory
    orbit_particles,  \* trajectories: the number of particles of each Orbit dataset
    enzo_dir,         \* trajectories: the names of the files below enzo_tiny_cosmology
    my_fns,           \* trajectories: the list of file names
    fields,           \* trajectories: the list of requested fields
    indices,          \* trajectories: the particle indices of the first dataset
    ts,               \* trajectories: the file names of the DatasetSeries
    trajs,            \* trajectories: the ParticleTrajectories object
    trajCell,         \* trajectories: the cell to run next
    loader,           \* field types: the loader the data dictionary is handed to
    stream_data,      \* field types: the keys of the data dictionary
    stream_fields,    \* field types: the field each key was loaded as
    streamCell,       \* field types: the cell to run next
    primary_header,   \* X-ray example: the primary header of the flux file
    field_info,       \* X-ray example: the derived fields of each loaded dataset
    exposure_time,    \* X-ray example: the variable exposure_time, in seconds
    objects,          \* X-ray example: the data objects and what their plots select
    plots,            \* X-ray example: the profile plots and their x limits
    pending,          \* X-ray example: the fields still to evaluate for a statement
    evaluated,        \* X-ray example: the field evaluations made so far
    xrayCell          \* X-ray example: index in XrayNotebook of the next statement

manifestVars == <<allfiles, files, line>>

preCommitVars == <<staged, hook, received>>

fitsVars == <<f, data, hdu, fitsCell>>

particleVars ==
    <<ppx, ppy, ppz, ppm, particle_data, bbox, ds, data2, ds2,
      particleCell>>

amrVars == <<grid_data, g, amr_ds, amrCell>>

unigridVars == <<arr_shape, nprocs, uni_ds, uniCell>>

trajectoryVars ==
    <<orbit_dir, orbit_particles, enzo_dir, my_fns, fields, indices, ts,
      trajs, trajCell>>

fieldTypeVars == <<loader, stream_data, stream_fields, streamCell>>

xrayVars ==
    <<primary_header, field_info, exposure_time, objects, plots, pending,
      evaluated, xrayCell>>

vars ==
    <<manifestVars, preCommitVars, fitsVars, particleVars, amrVars,
      unigridVars, trajectoryVars, fieldTypeVars, xrayVars>>

otherThanManifest ==
    <<preCommitVars, fitsVars, particleVars, amrVars, unigridVars,
      trajectoryVars, fieldTypeVars, xrayVars>>

otherThanPreCommit ==
    <<manifestVars, fitsVars, particleVars, amrVars, unigridVars,
      trajectoryVars, fieldTypeVars, xrayVars>>

otherThanFits ==
    <<manifestVars, preCommitVars, particleVars, amrVars, unigridVars,
      trajectoryVars, fieldTypeVars, xrayVars>>

otherThanParticles ==
    <<manifestVars, preCommitVars, fitsVars, amrVars, unigridVars,
      trajectoryVars, fieldTypeVars, xrayVars>>

otherThanAmr ==
    <<manifestVars, preCommitVars, fitsVars, particleVars, unigridVars,
      trajectoryVars, fieldTypeVars, xrayVars>>

otherThanUnigrid ==
    <<manifestVars, preCommitVars, fitsVars, particleVars, amrVars,
      trajectoryVars, fieldTypeVars, xrayVars>>

otherThanTrajectories ==
    <<manifestVars, preCommitVars, fitsVars, particleVars, amrVars,
      unigridVars, fieldTypeVars, xrayVars>>

otherThanFieldTypes ==
    <<manifestVars, preCommitVars, fitsVars, particleVars, amrVars,
      unigridVars, trajectoryVars, xrayVars>>

otherThanXray ==
    <<manifestVars, preCommitVars, fitsVars, particleVars, amrVars,
      unigridVars, trajectoryVars, fieldTypeVars>>

ManifestIdle == allfiles = {} /\ files = {} /\ line = 0

PreCommitIdle == staged = {} /\ hook = 0 /\ received = <<>>

FitsIdle == f = <<>> /\ data = <<>> /\ hdu = 0 /\ fitsCell = "idle"

ParticlesIdle ==
    /\ ppx = <<>> /\ ppy = <<>> /\ ppz = <<>> /\ ppm = <<>>
    /\ particle_data = <<>> /\ bbox = <<>> /\ ds = <<>>
    /\ data2 = <<>> /\ ds2 = <<>> /\ particleCell = "idle"

AmrIdle == grid_data = <<>> /\ g = 0 /\ amr_ds = <<>> /\ amrCell = "idle"

UnigridIdle ==
    arr_shape = <<>> /\ nprocs = 0 /\ uni_ds = <<>> /\ uniCell = "idle"

TrajectoriesIdle ==
    /\ orbit_dir = {} /\ orbit_particles = 0 /\ enzo_dir = {} /\ my_fns = <<>>
    /\ fields = <<>> /\ indices = <<>> /\ ts = <<>> /\ trajs = <<>>
    /\ trajCell = "idle"

FieldTypesIdle ==
    /\ loader = "" /\ stream_data = {} /\ stream_fields = <<>>
    /\ streamCell = "idle"

XrayIdle ==
    /\ primary_header = <<>> /\ field_info = <<>> /\ exposure_time = 0
    /\ objects = <<>> /\ plots = <<>> /\ pending = <<>> /\ evaluated = {}
    /\ xrayCell = 0

(***************************************************************************)
(* Bounds                                                                  *)
(***************************************************************************)
\* largest number of files in the source tree of one run
MaxFiles == 1

\* largest number of files in one commit
MaxStaged == 2

\* number of different arrays an HDU of the FITS file may hold
MaxArrays == 2

\* number of particles of the first particle dataset (n_particles)
NParticles == 1

\* number of "dm" particles of the second dataset (n_dm_particles)
NDmParticles == 1

\* number of "star" particles of the second dataset (n_star_particles)
NStarParticles == 1

\* largest magnitude of a sample of np.random.normal, as a whole number
MaxDeviate == 1

\* number of particles attached to the level-1 grid of the AMR example
NGridParticles == 1

\* number of different samples prng.uniform may return
UniformSamples == 4

\* largest nprocs passed to load_uniform_grid
MaxNprocs == 64


\* largest number of files in the Orbit directory
MaxOrbitFiles == 3

\* largest number of particles of an Orbit dataset
MaxOrbitParticles == 2

\* largest number of keys of a data dictionary handed to a loader
MaxKeys == 2

\* largest exposure the primary header of the flux file may give, in seconds
MaxExposure == 3

\* largest number of files below enzo_tiny_cosmology besides DD0046/DD0046
MaxEnzoFiles == 2
(***************************************************************************)
(* Sequences of characters                                                 *)
(***************************************************************************)
Sep == "/"

Drop(s, n) == SubSeq(s, n + 1, Len(s))

Take(s, n) == SubSeq(s, 1, n)

HasSep(s) == \E i \in 1..Len(s) : s[i] = Sep

\* os.path.join(a, b)
Join(a, b) == a \o <<Sep>> \o b

\* str.split(os.path.sep): the chunks of a pattern between separators
RECURSIVE Chunks(_)
Chunks(p) ==
    IF ~HasSep(p) THEN <<p>>
    ELSE LET k == CHOOSE i \in 1..Len(p) :
                      p[i] = Sep /\ \A j \in 1..(i - 1) : p[j] # Sep
         IN  <<Take(p, k - 1)>> \o Chunks(Drop(p, k))

(***************************************************************************)
(* MANIFEST.in: pattern matching                                           *)
(***************************************************************************)
GlobStar == <<"*","*">>

\* one path component against one chunk of a pattern: "*" stands for any
\* run of characters other than the separator, any other character for
\* itself
RECURSIVE MatchName(_, _)
MatchName(c, s) ==
    IF c = <<>> THEN s = <<>>
    ELSE IF Head(c) = "*"
         THEN \/ MatchName(Tail(c), s)
              \/ s # <<>> /\ Head(s) # Sep /\ MatchName(c, Tail(s))
         ELSE s # <<>> /\ Head(s) = Head(c) /\ MatchName(Tail(c), Tail(s))

\* a whole path against the chunks of a pattern: a chunk that is exactly
\* "**" matches any number of directories, or anything when it is the last
\* chunk; the match is anchored at both ends
RECURSIVE MatchChunks(_, _)
MatchChunks(cs, s) ==
    LET c    == Head(cs)
        last == Len(cs) = 1
    IN  IF c = GlobStar
        THEN IF last THEN TRUE
             ELSE \/ MatchChunks(Tail(cs), s)
                  \/ \E k \in 2..Len(s) :
                        /\ s[k] = Sep
                        /\ ~HasSep(Take(s, k - 1))
                        /\ MatchChunks(cs, Drop(s, k))
        ELSE \E k \in 0..Len(s) :
                /\ ~HasSep(Take(s, k))
                /\ MatchName(c, Take(s, k))
                /\ IF last THEN k = Len(s)
                   ELSE /\ k < Len(s)
                        /\ s[k + 1] = Sep
                        /\ MatchChunks(Tail(cs), Drop(s, k + 1))

GlobMatch(pattern, path) == MatchChunks(Chunks(pattern), path)

MatchAny(patterns, path) ==
    \E i \in 1..Len(patterns) : GlobMatch(patterns[i], path)

(***************************************************************************)
(* MANIFEST.in: the commands, one record per non-blank line                *)
(***************************************************************************)
Manifest == <<
    [line |-> 1, cmd |-> "include", dir |-> <<>>,
     pats |-> <<<<"R","E","A","D","M","E","*">>, <<"C","R","E","D","I","T","S">>, <<"C","O","P","Y","I","N","G",".","t","x","t">>, <<"C","I","T","A","T","I","O","N">>,
                <<"s","e","t","u","p","e","x","t",".","p","y">>, <<"C","O","N","T","R","I","B","U","T","I","N","G",".","r","s","t">>>>],
    [line |-> 2, cmd |-> "include", dir |-> <<>>,
     pats |-> <<<<"y","t","/","v","i","s","u","a","l","i","z","a","t","i","o","n","/","m","a","p","s","e","r","v","e","r","/","h","t","m","l","/","m","a","p",".","j","s">>>>],
    [line |-> 3, cmd |-> "include", dir |-> <<>>,
     pats |-> <<<<"y","t","/","v","i","s","u","a","l","i","z","a","t","i","o","n","/","m","a","p","s","e","r","v","e","r","/","h","t","m","l","/","m","a","p","_","i","n","d","e","x",".","h","t","m","l">>>>],
    [line |-> 4, cmd |-> "include", dir |-> <<>>,
     pats |-> <<<<"y","t","/","v","i","s","u","a","l","i","z","a","t","i","o","n","/","m","a","p","s","e","r","v","e","r","/","h","t","m","l","/","L","e","a","f","l","e","t",".","C","o","o","r","d","i","n","a","t","e","s","-","0",".","1",".","5",".","c","s","s">>>>],
    [line |-> 5, cmd |-> "include", dir |-> <<>>,
     pats |-> <<<<"y","t","/","v","i","s","u","a","l","i","z","a","t","i","o","n","/","m","a","p","s","e","r","v","e","r","/","h","t","m","l","/","L","e","a","f","l","e","t",".","C","o","o","r","d","i","n","a","t","e","s","-","0",".","1",".","5",".","s","r","c",".","j","s">>>>],
    [line |-> 6, cmd |-> "include", dir |-> <<>>,
     pats |-> <<<<"y","t","/","u","t","i","l","i","t","i","e","s","/","t","e","s","t","s","/","c","o","s","m","o","l","o","g","y","_","a","n","s","w","e","r","s",".","y","m","l">>>>],
    [line |-> 7, cmd |-> "include", dir |-> <<>>,
     pats |-> <<<<"y","t","/","u","t","i","l","i","t","i","e","s","/","m","e","s","h","_","t","y","p","e","s",".","y","a","m","l">>>>],
    [line |-> 8, cmd |-> "exclude", dir |-> <<>>,
     pats |-> <<<<"s","c","r","i","p","t","s","/","p","r","_","b","a","c","k","p","o","r","t",".","p","y">>>>],
    [line |-> 9, cmd |-> "exclude", dir |-> <<>>,
     pats |-> <<<<"y","t","/","u","t","i","l","i","t","i","e","s","/","l","i","b","/","c","y","k","d","t","r","e","e","/","c","_","k","d","t","r","e","e",".","c","p","p">>>>],
    [line |-> 10, cmd |-> "prune", dir |-> <<"d","o","c","k","e","r">>, pats |-> <<>>],
    [line |-> 11, cmd |-> "prune", dir |-> <<"t","e","s","t","s">>, pats |-> <<>>],
    [line |-> 12, cmd |-> "prune", dir |-> <<"a","n","s","w","e","r","-","s","t","o","r","e">>, pats |-> <<>>],
    [line |-> 13, cmd |-> "recursive-include", dir |-> <<"y","t">>,
     pats |-> <<<<"*",".","p","y">>, <<"*",".","p","y","x">>, <<"*",".","p","x","i">>, <<"*",".","p","x","d">>, <<"*",".","h">>, <<"*",".","h","p","p">>,
                <<"R","E","A","D","M","E","*">>, <<"*",".","t","x","t">>, <<"L","I","C","E","N","S","E","*">>, <<"*",".","c","u">>>>],
    [line |-> 14, cmd |-> "recursive-include", dir |-> <<"d","o","c">>,
     pats |-> <<<<"*",".","r","s","t">>, <<"*",".","t","x","t">>, <<"*",".","p","y">>, <<"*",".","i","p","y","n","b">>, <<"*",".","p","n","g">>, <<"*",".","j","p","g">>,
                <<"*",".","c","s","s">>, <<"*",".","h","t","m","l">>>>],
    [line |-> 15, cmd |-> "recursive-include", dir |-> <<"d","o","c">>,
     pats |-> <<<<"*",".","h">>, <<"*",".","c">>, <<"*",".","s","h">>, <<"*",".","s","v","g","z">>, <<"*",".","p","d","f">>, <<"*",".","s","v","g">>,
                <<"*",".","p","y","x">>>>],
    [line |-> 16, cmd |-> "include", dir |-> <<>>,
     pats |-> <<<<"d","o","c","/","R","E","A","D","M","E">>, <<"d","o","c","/","a","c","t","i","v","a","t","e">>, <<"d","o","c","/","a","c","t","i","v","a","t","e",".","c","s","h">>,
                <<"d","o","c","/","c","h","e","a","t","s","h","e","e","t",".","t","e","x">>>>],
    [line |-> 17, cmd |-> "exclude", dir |-> <<>>,
     pats |-> <<<<"d","o","c","/","c","h","e","a","t","s","h","e","e","t",".","p","d","f">>>>],
    [line |-> 18, cmd |-> "include", dir |-> <<>>,
     pats |-> <<<<"d","o","c","/","e","x","t","e","n","s","i","o","n","s","/","R","E","A","D","M","E">>, <<"d","o","c","/","M","a","k","e","f","i","l","e">>>>],
    [line |-> 19, cmd |-> "prune",
     dir |-> <<"d","o","c","/","s","o","u","r","c","e","/","r","e","f","e","r","e","n","c","e","/","a","p","i","/","g","e","n","e","r","a","t","e","d">>, pats |-> <<>>],
    [line |-> 20, cmd |-> "prune", dir |-> <<"d","o","c","/","b","u","i","l","d">>, pats |-> <<>>],
    [line |-> 21, cmd |-> "prune", dir |-> <<".","t","o","u","r","s">>, pats |-> <<>>],
    [line |-> 22, cmd |-> "recursive-include",
     dir |-> <<"y","t","/","v","i","s","u","a","l","i","z","a","t","i","o","n","/","v","o","l","u","m","e","_","r","e","n","d","e","r","i","n","g","/","s","h","a","d","e","r","s">>,
     pats |-> <<<<"*",".","f","r","a","g","m","e","n","t","s","h","a","d","e","r">>, <<"*",".","v","e","r","t","e","x","s","h","a","d","e","r">>>>],
    [line |-> 23, cmd |-> "include", dir |-> <<>>,
     pats |-> <<<<"y","t","/","s","a","m","p","l","e","_","d","a","t","a","_","r","e","g","i","s","t","r","y",".","j","s","o","n">>>>],
    [line |-> 24, cmd |-> "include", dir |-> <<>>,
     pats |-> <<<<"c","o","n","f","t","e","s","t",".","p","y">>>>],
    [line |-> 25, cmd |-> "include", dir |-> <<>>,
     pats |-> <<<<"y","t","/","p","y",".","t","y","p","e","d">>>>],
    [line |-> 26, cmd |-> "include", dir |-> <<>>,
     pats |-> <<<<"y","t","/","d","e","f","a","u","l","t",".","m","p","l","s","t","y","l","e">>>>],
    [line |-> 28, cmd |-> "prune", dir |-> <<"y","t","/","f","r","o","n","t","e","n","d","s","/","_","s","k","e","l","e","t","o","n">>,
     pats |-> <<>>],
    [line |-> 29, cmd |-> "recursive-include", dir |-> <<"y","t","/","f","r","o","n","t","e","n","d","s","/","a","m","r","v","a","c">>,
     pats |-> <<<<"*",".","p","a","r">>>>],
    [line |-> 30, cmd |-> "exclude", dir |-> <<>>,
     pats |-> <<<<".","c","o","d","e","c","o","v",".","y","m","l">>, <<".","c","o","v","e","r","a","g","e","r","c">>, <<".","g","i","t","-","b","l","a","m","e","-","i","g","n","o","r","e","-","r","e","v","s">>,
                <<".","g","i","t","m","o","d","u","l","e","s">>, <<".","h","g","c","h","u","r","n">>, <<".","m","a","i","l","m","a","p">>>>],
    [line |-> 31, cmd |-> "exclude", dir |-> <<>>,
     pats |-> <<<<".","p","r","e","-","c","o","m","m","i","t","-","c","o","n","f","i","g",".","y","a","m","l">>, <<"c","l","e","a","n",".","s","h">>, <<"n","o","s","e","_","a","n","s","w","e","r",".","c","f","g">>,
                <<"n","o","s","e","_","u","n","i","t",".","c","f","g">>, <<"n","o","s","e","_","i","g","n","o","r","e","s",".","t","x","t">>>>]
>>

NCommands == Len(Manifest)

\* the command about to be applied
Command == Manifest[line]

ManifestDone == line = NCommands + 1

(***************************************************************************)
(* MANIFEST.in: the source trees the commands are applied to               *)
(***************************************************************************)
\* files kept by one of the plain include commands
IncludedFiles == {
    <<"R","E","A","D","M","E",".","m","d">>, <<"C","R","E","D","I","T","S">>, <<"C","O","P","Y","I","N","G",".","t","x","t">>, <<"C","I","T","A","T","I","O","N">>, <<"s","e","t","u","p","e","x","t",".","p","y">>,
    <<"C","O","N","T","R","I","B","U","T","I","N","G",".","r","s","t">>,
    <<"y","t","/","v","i","s","u","a","l","i","z","a","t","i","o","n","/","m","a","p","s","e","r","v","e","r","/","h","t","m","l","/","m","a","p",".","j","s">>,
    <<"y","t","/","v","i","s","u","a","l","i","z","a","t","i","o","n","/","m","a","p","s","e","r","v","e","r","/","h","t","m","l","/","m","a","p","_","i","n","d","e","x",".","h","t","m","l">>,
    <<"y","t","/","v","i","s","u","a","l","i","z","a","t","i","o","n","/","m","a","p","s","e","r","v","e","r","/","h","t","m","l","/","L","e","a","f","l","e","t",".","C","o","o","r","d","i","n","a","t","e","s","-","0",".","1",".","5",".","c","s","s">>,
    <<"y","t","/","v","i","s","u","a","l","i","z","a","t","i","o","n","/","m","a","p","s","e","r","v","e","r","/","h","t","m","l","/","L","e","a","f","l","e","t",".","C","o","o","r","d","i","n","a","t","e","s","-","0",".","1",".","5",".","s","r","c",".","j","s">>,
    <<"y","t","/","u","t","i","l","i","t","i","e","s","/","t","e","s","t","s","/","c","o","s","m","o","l","o","g","y","_","a","n","s","w","e","r","s",".","y","m","l">>,
    <<"y","t","/","u","t","i","l","i","t","i","e","s","/","m","e","s","h","_","t","y","p","e","s",".","y","a","m","l">>,
    <<"d","o","c","/","R","E","A","D","M","E">>, <<"d","o","c","/","a","c","t","i","v","a","t","e">>, <<"d","o","c","/","a","c","t","i","v","a","t","e",".","c","s","h">>,
    <<"d","o","c","/","c","h","e","a","t","s","h","e","e","t",".","t","e","x">>, <<"d","o","c","/","e","x","t","e","n","s","i","o","n","s","/","R","E","A","D","M","E">>, <<"d","o","c","/","M","a","k","e","f","i","l","e">>,
    <<"y","t","/","s","a","m","p","l","e","_","d","a","t","a","_","r","e","g","i","s","t","r","y",".","j","s","o","n">>, <<"c","o","n","f","t","e","s","t",".","p","y">>, <<"y","t","/","p","y",".","t","y","p","e","d">>,
    <<"y","t","/","d","e","f","a","u","l","t",".","m","p","l","s","t","y","l","e">> }

\* files named by the exclude commands
ExcludedFiles == {
    <<"s","c","r","i","p","t","s","/","p","r","_","b","a","c","k","p","o","r","t",".","p","y">>, <<"y","t","/","u","t","i","l","i","t","i","e","s","/","l","i","b","/","c","y","k","d","t","r","e","e","/","c","_","k","d","t","r","e","e",".","c","p","p">>,
    <<"d","o","c","/","c","h","e","a","t","s","h","e","e","t",".","p","d","f">>,
    <<".","c","o","d","e","c","o","v",".","y","m","l">>, <<".","c","o","v","e","r","a","g","e","r","c">>, <<".","g","i","t","-","b","l","a","m","e","-","i","g","n","o","r","e","-","r","e","v","s">>,
    <<".","g","i","t","m","o","d","u","l","e","s">>, <<".","h","g","c","h","u","r","n">>, <<".","m","a","i","l","m","a","p">>, <<".","p","r","e","-","c","o","m","m","i","t","-","c","o","n","f","i","g",".","y","a","m","l">>,
    <<"c","l","e","a","n",".","s","h">>, <<"n","o","s","e","_","a","n","s","w","e","r",".","c","f","g">>, <<"n","o","s","e","_","u","n","i","t",".","c","f","g">>, <<"n","o","s","e","_","i","g","n","o","r","e","s",".","t","x","t">> }

\* the directories of the prune commands
PrunedDirs == {
    <<"d","o","c","k","e","r">>, <<"t","e","s","t","s">>, <<"a","n","s","w","e","r","-","s","t","o","r","e">>,
    <<"d","o","c","/","s","o","u","r","c","e","/","r","e","f","e","r","e","n","c","e","/","a","p","i","/","g","e","n","e","r","a","t","e","d">>, <<"d","o","c","/","b","u","i","l","d">>, <<".","t","o","u","r","s">>,
    <<"y","t","/","f","r","o","n","t","e","n","d","s","/","_","s","k","e","l","e","t","o","n">> }

\* files below the pruned directories
PrunedFiles == {
    <<"d","o","c","k","e","r","/","D","o","c","k","e","r","f","i","l","e">>, <<"t","e","s","t","s","/","t","e","s","t","s",".","y","a","m","l">>, <<"t","e","s","t","s","/","n","o","s","e","_","r","u","n","n","e","r",".","p","y">>,
    <<"a","n","s","w","e","r","-","s","t","o","r","e","/","e","n","z","o","_","t","i","n","y",".","t","x","t">>,
    <<"d","o","c","/","s","o","u","r","c","e","/","r","e","f","e","r","e","n","c","e","/","a","p","i","/","g","e","n","e","r","a","t","e","d","/","y","t",".","f","u","n","c","s",".","r","s","t">>,
    <<"d","o","c","/","b","u","i","l","d","/","h","t","m","l","/","i","n","d","e","x",".","h","t","m","l">>, <<".","t","o","u","r","s","/","i","n","t","r","o",".","t","o","u","r">>,
    <<"y","t","/","f","r","o","n","t","e","n","d","s","/","_","s","k","e","l","e","t","o","n","/","a","p","i",".","p","y">>,
    <<"y","t","/","f","r","o","n","t","e","n","d","s","/","_","s","k","e","l","e","t","o","n","/","R","E","A","D","M","E",".","t","x","t">> }

\* files below yt/ and the directories next to it
YtFiles == {
    <<"y","t","/","_","_","i","n","i","t","_","_",".","p","y">>, <<"y","t","/","u","t","i","l","i","t","i","e","s","/","l","i","b","/","f","p","_","u","t","i","l","s",".","p","x","d">>,
    <<"y","t","/","u","t","i","l","i","t","i","e","s","/","l","i","b","/","g","r","i","d","_","t","r","a","v","e","r","s","a","l",".","p","y","x">>,
    <<"y","t","/","u","t","i","l","i","t","i","e","s","/","l","i","b","/","h","e","a","l","p","i","x","_","i","p","i","x",".","p","x","i">>,
    <<"y","t","/","u","t","i","l","i","t","i","e","s","/","l","i","b","/","p","l","a","t","f","o","r","m","_","d","e","p",".","h">>,
    <<"y","t","/","u","t","i","l","i","t","i","e","s","/","l","i","b","/","c","y","k","d","t","r","e","e","/","c","_","k","d","t","r","e","e",".","h","p","p">>,
    <<"y","t","/","f","r","o","n","t","e","n","d","s","/","r","a","m","s","e","s","/","R","E","A","D","M","E",".","m","d">>, <<"y","t","/","u","t","i","l","i","t","i","e","s","/","R","E","A","D","M","E">>,
    <<"y","t","/","u","t","i","l","i","t","i","e","s","/","p","o","s","t","e","r","/","L","I","C","E","N","S","E">>, <<"y","t","/","e","x","t","e","r","n","/","t","q","d","m","/","L","I","C","E","N","S","E",".","t","x","t">>,
    <<"y","t","/","u","t","i","l","i","t","i","e","s","/","v","o","r","o","p","p",".","c","u">>, <<"y","t","/","u","t","i","l","i","t","i","e","s","/","t","e","s","t","s","/","t","e","s","t","_","c","o","s","m","o","l","o","g","y",".","p","y">>,
    <<"y","t","/","f","r","o","n","t","e","n","d","s","/","_","s","k","e","l","e","t","o","n","_","e","x","t","/","a","p","i",".","p","y">>, <<"y","t","/","d","o","c","k","e","r","/","r","u","n",".","p","y">>,
    <<"y","t","/","u","t","i","l","i","t","i","e","s","/","l","i","b","/","f","i","x","e","d","_","i","n","t","e","r","p","o","l","a","t","o","r",".","c","p","p">>,
    <<"y","t","/","f","r","o","n","t","e","n","d","s","/","a","m","r","v","a","c","/","t","e","s","t","s","/","s","a","m","p","l","e",".","p","a","r">>,
    <<"y","t","/","v","i","s","u","a","l","i","z","a","t","i","o","n","/","v","o","l","u","m","e","_","r","e","n","d","e","r","i","n","g","/","s","h","a","d","e","r","s","/","m","a","x",".","f","r","a","g","m","e","n","t","s","h","a","d","e","r">>,
    <<"y","t","/","v","i","s","u","a","l","i","z","a","t","i","o","n","/","v","o","l","u","m","e","_","r","e","n","d","e","r","i","n","g","/","s","h","a","d","e","r","s","/","d","e","f","a","u","l","t",".","v","e","r","t","e","x","s","h","a","d","e","r">>,
    <<"y","t","/","v","i","s","u","a","l","i","z","a","t","i","o","n","/","v","o","l","u","m","e","_","r","e","n","d","e","r","i","n","g","/","n","o","t","e","s",".","g","l","s","l">> }

\* files below doc/
DocFiles == {
    <<"d","o","c","/","s","o","u","r","c","e","/","a","n","a","l","y","z","i","n","g","/","P","a","r","t","i","c","l","e","_","T","r","a","j","e","c","t","o","r","i","e","s",".","i","p","y","n","b">>,
    <<"d","o","c","/","s","o","u","r","c","e","/","i","n","d","e","x",".","r","s","t">>, <<"d","o","c","/","s","o","u","r","c","e","/","r","e","q","u","i","r","e","m","e","n","t","s",".","t","x","t">>,
    <<"d","o","c","/","h","e","l","p","e","r","_","s","c","r","i","p","t","s","/","t","a","b","l","e",".","p","y">>, <<"d","o","c","/","s","o","u","r","c","e","/","_","s","t","a","t","i","c","/","y","t","_","i","c","o","n",".","p","n","g">>,
    <<"d","o","c","/","s","o","u","r","c","e","/","v","i","s","u","a","l","i","z","i","n","g","/","c","o","l","o","r","m","a","p","s","/","c","m","a","p",".","j","p","g">>,
    <<"d","o","c","/","s","o","u","r","c","e","/","_","s","t","a","t","i","c","/","c","u","s","t","o","m",".","c","s","s">>, <<"d","o","c","/","s","o","u","r","c","e","/","_","t","e","m","p","l","a","t","e","s","/","l","a","y","o","u","t",".","h","t","m","l">>,
    <<"d","o","c","/","s","o","u","r","c","e","/","d","e","v","e","l","o","p","i","n","g","/","e","x","t","e","n","s","i","o","n","s","/","a","x","e","s",".","h">>,
    <<"d","o","c","/","s","o","u","r","c","e","/","d","e","v","e","l","o","p","i","n","g","/","e","x","t","e","n","s","i","o","n","s","/","a","x","e","s",".","c">>, <<"d","o","c","/","i","n","s","t","a","l","l","_","s","c","r","i","p","t",".","s","h">>,
    <<"d","o","c","/","s","o","u","r","c","e","/","_","s","t","a","t","i","c","/","f","i","g","u","r","e",".","s","v","g","z">>, <<"d","o","c","/","s","o","u","r","c","e","/","p","a","p","e","r",".","p","d","f">>,
    <<"d","o","c","/","s","o","u","r","c","e","/","_","s","t","a","t","i","c","/","l","o","g","o",".","s","v","g">>,
    <<"d","o","c","/","s","o","u","r","c","e","/","d","e","v","e","l","o","p","i","n","g","/","e","x","t","e","n","s","i","o","n","s","/","f","a","s","t",".","p","y","x">>,
    <<"d","o","c","/","b","u","i","l","d","n","o","t","e","s","/","l","o","g",".","r","s","t">>, <<"d","o","c","/","s","o","u","r","c","e","/","c","o","n","f",".","y","a","m","l">> }

\* files at the top level and elsewhere that no command names
OtherFiles == {
    <<"s","e","t","u","p",".","p","y">>, <<"p","y","p","r","o","j","e","c","t",".","t","o","m","l">>, <<"s","c","r","i","p","t","s","/","i","y","t">>, <<"t","e","s","t","s",".","y","a","m","l">>,
    <<"b","e","n","c","h","m","a","r","k","s","/","R","E","A","D","M","E",".","r","s","t">> }

Universe ==
    IncludedFiles \cup ExcludedFiles \cup PrunedFiles \cup YtFiles
        \cup DocFiles \cup OtherFiles

(***************************************************************************)
(* MANIFEST.in: the four commands                                          *)
(***************************************************************************)
\* include pat1 pat2 ...: add the existing files matching any pattern
IncludeResult(fs, all, pats) ==
    fs \cup {p \in all : MatchAny(pats, p)}

\* exclude that honours only the first pattern of the line
ExcludeResultFirstPattern(fs, pats) ==
    {p \in fs : ~GlobMatch(pats[1], p)}

\* exclude pat1 pat2 ...: remove the listed files matching any pattern
ExcludeResult(fs, pats) ==
    {p \in fs : ~MatchAny(pats, p)}

\* recursive-include that looks only at the files directly inside dir
RecursiveIncludeResultFlat(fs, all, dir, pats) ==
    fs \cup {p \in all :
               \E i \in 1..Len(pats) : GlobMatch(Join(dir, pats[i]), p)}

\* recursive-include dir pat1 pat2 ...: add the existing files below dir
\* whose name matches any pattern
RecursiveIncludeResult(fs, all, dir, pats) ==
    fs \cup {p \in all :
               \E i \in 1..Len(pats) :
                   GlobMatch(Join(dir, Join(GlobStar, pats[i])), p)}

\* prune that removes only the files directly inside dir
PruneResultShallow(fs, dir) ==
    {p \in fs : ~GlobMatch(Join(dir, <<"*">>), p)}

\* prune that removes every file whose path begins with the text of dir
PruneResultPrefix(fs, dir) ==
    {p \in fs : ~(Len(p) >= Len(dir) /\ Take(p, Len(dir)) = dir)}

\* prune that removes the files below a directory named dir at any depth
PruneResultAnyDepth(fs, dir) ==
    {p \in fs : ~GlobMatch(Join(GlobStar, Join(dir, GlobStar)), p)}

\* prune dir: remove every listed file below dir
PruneResult(fs, dir) ==
    {p \in fs : ~GlobMatch(Join(dir, GlobStar), p)}

\* the subsets of S with at most n elements
RECURSIVE SubsetsUpTo(_, _)
SubsetsUpTo(S, n) ==
    IF n = 0 THEN {{}}
    ELSE LET P == SubsetsUpTo(S, n - 1)
         IN  P \cup {p \cup {x} : p \in P, x \in S}

InitManifest ==
    /\ allfiles \in SubsetsUpTo(Universe, MaxFiles)
    /\ files \in SUBSET allfiles
    /\ line = 1
    /\ PreCommitIdle
    /\ FitsIdle
    /\ ParticlesIdle
    /\ AmrIdle
    /\ UnigridIdle
    /\ TrajectoriesIdle
    /\ FieldTypesIdle
    /\ XrayIdle

Include ==
    /\ line <= NCommands
    /\ Command.cmd = "include"
    /\ files' = IncludeResult(files, allfiles, Command.pats)
    /\ line' = line + 1
    /\ UNCHANGED <<allfiles, otherThanManifest>>

Exclude ==
    /\ line <= NCommands
    /\ Command.cmd = "exclude"
    /\ files' = ExcludeResult(files, Command.pats)
    /\ line' = line + 1
    /\ UNCHANGED <<allfiles, otherThanManifest>>

RecursiveInclude ==
    /\ line <= NCommands
    /\ Command.cmd = "recursive-include"
    /\ files' = RecursiveIncludeResult(files, allfiles, Command.dir,
                                       Command.pats)
    /\ line' = line + 1
    /\ UNCHANGED <<allfiles, otherThanManifest>>

Prune ==
    /\ line <= NCommands
    /\ Command.cmd = "prune"
    /\ files' = PruneResult(files, Command.dir)
    /\ line' = line + 1
    /\ UNCHANGED <<allfiles, otherThanManifest>>

NextManifest == Include \/ Exclude \/ RecursiveInclude \/ Prune

SpecManifest == InitManifest /\ [][NextManifest]_vars

(***************************************************************************)
(* Properties of the packaging manifest                                    *)
(***************************************************************************)
StartsWith(s, pre) == Len(s) >= Len(pre) /\ Take(s, Len(pre)) = pre

EndsWith(s, suf) ==
    Len(s) >= Len(suf) /\ SubSeq(s, Len(s) - Len(suf) + 1, Len(s)) = suf

\* p lies in directory dir or in one of its subdirectories
IsBelow(dir, p) == StartsWith(p, dir \o <<Sep>>) /\ Len(p) > Len(dir) + 1

\* the last component of a path
BaseName(p) ==
    LET seps == {i \in 1..Len(p) : p[i] = Sep}
    IN  IF seps = {} THEN p
        ELSE Drop(p, CHOOSE i \in seps : \A j \in seps : j <= i)

NameFits(p, suffixes, prefixes) ==
    \/ \E x \in suffixes : EndsWith(BaseName(p), x)
    \/ \E x \in prefixes : StartsWith(BaseName(p), x)

SkeletonApi == <<"y","t","/","f","r","o","n","t","e","n","d","s","/","_","s","k","e","l","e","t","o","n","/","a","p","i",".","p","y">>

CheatsheetPdf == <<"d","o","c","/","c","h","e","a","t","s","h","e","e","t",".","p","d","f">>

TrajectoriesNotebook == <<"d","o","c","/","s","o","u","r","c","e","/","a","n","a","l","y","z","i","n","g","/","P","a","r","t","i","c","l","e","_","T","r","a","j","e","c","t","o","r","i","e","s",".","i","p","y","n","b">>

CosmologyAnswers == <<"y","t","/","u","t","i","l","i","t","i","e","s","/","t","e","s","t","s","/","c","o","s","m","o","l","o","g","y","_","a","n","s","w","e","r","s",".","y","m","l">>

YtSuffixes ==
    {<<".","p","y">>, <<".","p","y","x">>, <<".","p","x","i">>, <<".","p","x","d">>, <<".","h">>, <<".","h","p","p">>, <<".","t","x","t">>, <<".","c","u">>}

YtPrefixes == {<<"R","E","A","D","M","E">>, <<"L","I","C","E","N","S","E">>}

DocSuffixes ==
    {<<".","r","s","t">>, <<".","t","x","t">>, <<".","p","y">>, <<".","i","p","y","n","b">>, <<".","p","n","g">>, <<".","j","p","g">>, <<".","c","s","s">>,
     <<".","h","t","m","l">>, <<".","h">>, <<".","c">>, <<".","s","h">>, <<".","s","v","g","z">>, <<".","p","d","f">>, <<".","s","v","g">>, <<".","p","y","x">>}

\* C1: once every manifest command has been applied, no shipped file lies
\* below docker, tests, answer-store, doc/source/reference/api/generated,
\* doc/build, .tours or yt/frontends/_skeleton.
C1_NoPrunedFileShipped ==
    ManifestDone => \A p \in files : \A d \in PrunedDirs : ~IsBelow(d, p)

\* a run has finished on a tree that holds yt/frontends/_skeleton/api.py,
\* which line 13 adds and line 28 prunes
C1_Witness ==
    ManifestDone /\ SkeletonApi \in allfiles /\ SkeletonApi \notin files

\* C2: once every manifest command has been applied, none of the files
\* named by an exclude command is shipped, doc/cheatsheet.pdf included.
C2_NoExcludedFileShipped ==
    ManifestDone => files \cap ExcludedFiles = {}

\* a run has finished on a tree that holds doc/cheatsheet.pdf, which line
\* 15 adds and line 17 excludes
C2_Witness ==
    ManifestDone /\ CheatsheetPdf \in allfiles /\ CheatsheetPdf \notin files

\* C3: once every manifest command has been applied, every existing file
\* below yt/ whose name matches a pattern of line 13 and that is not below
\* yt/frontends/_skeleton is shipped.
C3_YtSourcesShipped ==
    ManifestDone =>
        \A p \in allfiles :
            ( /\ IsBelow(<<"y","t">>, p)
              /\ NameFits(p, YtSuffixes, YtPrefixes)
              /\ ~IsBelow(<<"y","t","/","f","r","o","n","t","e","n","d","s","/","_","s","k","e","l","e","t","o","n">>, p) ) => p \in files

\* a run has finished on a tree with a matching file in a subdirectory of
\* yt/, and the file is shipped
C3_Witness ==
    /\ ManifestDone
    /\ \E p \in files :
          /\ IsBelow(<<"y","t","/","u","t","i","l","i","t","i","e","s">>, p)
          /\ NameFits(p, YtSuffixes, YtPrefixes)

\* C4: once every manifest command has been applied, every existing file
\* below doc/ whose name matches a pattern of lines 14-15 is shipped,
\* unless it lies below doc/build or doc/source/reference/api/generated or
\* is doc/cheatsheet.pdf; the trajectory notebook is one of the shipped.
C4_DocFilesShipped ==
    ManifestDone =>
        /\ \A p \in allfiles :
              ( /\ IsBelow(<<"d","o","c">>, p)
                /\ NameFits(p, DocSuffixes, {})
                /\ ~IsBelow(<<"d","o","c","/","b","u","i","l","d">>, p)
                /\ ~IsBelow(<<"d","o","c","/","s","o","u","r","c","e","/","r","e","f","e","r","e","n","c","e","/","a","p","i","/","g","e","n","e","r","a","t","e","d">>, p)
                /\ p # CheatsheetPdf ) => p \in files
        /\ TrajectoriesNotebook \in allfiles
              => TrajectoriesNotebook \in files

\* a run has finished with the trajectory notebook shipped
C4_Witness == ManifestDone /\ TrajectoriesNotebook \in files

\* a file named by one of the plain include commands
NamedByInclude(p) ==
    \/ p \in IncludedFiles
    \/ ~HasSep(p) /\ StartsWith(p, <<"R","E","A","D","M","E">>)

\* C5: once every manifest command has been applied, every existing file
\* named by a plain include command is shipped; in particular
\* yt/utilities/tests/cosmology_answers.yml outlives the prune of tests.
C5_IncludedFilesShipped ==
    ManifestDone => \A p \in allfiles : NamedByInclude(p) => p \in files

\* a run has finished with yt/utilities/tests/cosmology_answers.yml shipped
C5_Witness == ManifestDone /\ CosmologyAnswers \in files

(***************************************************************************)
(* .pre-commit-config.yaml: the top-level exclude pattern                  *)
(***************************************************************************)
\* the alternatives between "^(" and ")"
ExcludeAlternatives == <<
    <<"y","t","/","e","x","t","e","r","n">>,
    <<"y","t","/","f","r","o","n","t","e","n","d","s","/","s","t","r","e","a","m","/","s","a","m","p","l","e","_","d","a","t","a">>,
    <<"y","t","/","u","n","i","t","s">>,
    <<"s","c","r","i","p","t","s">>,
    <<"b","e","n","c","h","m","a","r","k">>,
    <<"s","e","t","u","p","e","x","t",".","p","y">>,
    <<"y","t","/","v","i","s","u","a","l","i","z","a","t","i","o","n","/","_","c","o","l","o","r","m","a","p","_","d","a","t","a",".","p","y">> >>

\* one alternative matched against the text that starts at position 1: "."
\* stands for any character, any other character for itself, and the text
\* may go on after the alternative ends
RECURSIVE RegexMatchesAt(_, _)
RegexMatchesAt(re, s) ==
    IF re = <<>> THEN TRUE
    ELSE /\ s # <<>>
         /\ Head(re) = "." \/ Head(re) = Head(s)
         /\ RegexMatchesAt(Tail(re), Tail(s))

\* an alternative that has to match the text up to its end
RECURSIVE RegexMatchesWhole(_, _)
RegexMatchesWhole(re, s) ==
    IF re = <<>> THEN s = <<>>
    ELSE /\ s # <<>>
         /\ Head(re) = "." \/ Head(re) = Head(s)
         /\ RegexMatchesWhole(Tail(re), Tail(s))

\* exclude that lets a path through unless an alternative matches all of it
ExcludeSearchWhole(path) ==
    \E i \in 1..Len(ExcludeAlternatives) :
        RegexMatchesWhole(ExcludeAlternatives[i], path)

\* re.search of "^(a|b|...)" in a path: some alternative matches at the
\* start of the path
ExcludeSearch(path) ==
    \E i \in 1..Len(ExcludeAlternatives) :
        RegexMatchesAt(ExcludeAlternatives[i], path)

\* the hooks in the order of the configuration
Hooks == <<
    "trailing-whitespace", "end-of-file-fixer", "no-commit-to-branch",
    "check-shebang-scripts-are-executable",
    "check-executables-have-shebangs", "check-yaml", "black-jupyter",
    "blacken-docs", "ruff", "nbqa-ruff", "rst-backticks", "cython-lint" >>

NHooks == Len(Hooks)

\* the directories the pattern is written for
HookExcludedDirs == {
    <<"y","t","/","e","x","t","e","r","n">>, <<"y","t","/","f","r","o","n","t","e","n","d","s","/","s","t","r","e","a","m","/","s","a","m","p","l","e","_","d","a","t","a">>, <<"y","t","/","u","n","i","t","s">>,
    <<"s","c","r","i","p","t","s">>, <<"b","e","n","c","h","m","a","r","k">> }

\* the files the pattern is written for
HookExcludedFiles == {
    <<"s","e","t","u","p","e","x","t",".","p","y">>, <<"y","t","/","v","i","s","u","a","l","i","z","a","t","i","o","n","/","_","c","o","l","o","r","m","a","p","_","d","a","t","a",".","p","y">> }

\* the paths a commit may touch
StagedUniverse == HookExcludedFiles \cup {
    <<"y","t","/","e","x","t","e","r","n","/","t","q","d","m","/","_","t","q","d","m",".","p","y">>, <<"y","t","/","e","x","t","e","r","n","/","_","_","i","n","i","t","_","_",".","p","y">>,
    <<"y","t","/","f","r","o","n","t","e","n","d","s","/","s","t","r","e","a","m","/","s","a","m","p","l","e","_","d","a","t","a","/","h","e","x","a","h","e","d","r","a","l","_","m","e","s","h",".","p","y">>,
    <<"y","t","/","u","n","i","t","s","/","_","_","i","n","i","t","_","_",".","p","y">>, <<"y","t","/","u","n","i","t","s","/","t","e","s","t","s","/","t","e","s","t","_","u","n","i","t","s",".","p","y">>,
    <<"s","c","r","i","p","t","s","/","p","r","_","b","a","c","k","p","o","r","t",".","p","y">>, <<"s","c","r","i","p","t","s","/","i","y","t">>,
    <<"b","e","n","c","h","m","a","r","k","/","t","i","m","e","_","l","o","a","d",".","p","y">>,
    <<"b","e","n","c","h","m","a","r","k","s","/","b","e","n","c","h","m","a","r","k","s","/","s","m","a","l","l","_","e","n","z","o",".","p","y">>,
    <<"s","c","r","i","p","t","s","_","o","l","d","/","c","o","n","v","e","r","t",".","p","y">>, <<"y","t","/","u","n","i","t","s","_","e","x","t","r","a",".","p","y">>,
    <<"y","t","/","e","x","t","e","r","n","_","t","o","o","l","s","/","h","e","l","p","e","r",".","p","y">>, <<"s","e","t","u","p","e","x","t","_","p","y">>, <<"s","e","t","u","p","e","x","t",".","p","y","i">>,
    <<"y","t","/","f","u","n","c","s",".","p","y">>, <<"y","t","/","v","i","s","u","a","l","i","z","a","t","i","o","n","/","c","o","l","o","r","_","m","a","p","s",".","p","y">>, <<"s","e","t","u","p",".","p","y">>,
    <<"d","o","c","/","s","o","u","r","c","e","/","c","o","n","f",".","p","y">>, <<"t","e","s","t","s","/","t","e","s","t","s",".","y","a","m","l">>,
    <<"y","t","/","f","r","o","n","t","e","n","d","s","/","s","t","r","e","a","m","/","d","a","t","a","_","s","t","r","u","c","t","u","r","e","s",".","p","y">> }

InitPreCommit ==
    /\ staged \in SubsetsUpTo(StagedUniverse, MaxStaged)
    /\ hook = 1
    /\ received = [h \in 1..NHooks |-> {}]
    /\ ManifestIdle
    /\ FitsIdle
    /\ ParticlesIdle
    /\ AmrIdle
    /\ UnigridIdle
    /\ TrajectoriesIdle
    /\ FieldTypesIdle
    /\ XrayIdle

\* run the next hook on the files the exclude pattern lets through; the
\* hook's own file-type filter can only narrow this set further
RunHook ==
    /\ hook \in 1..NHooks
    /\ received' = [received EXCEPT
                       ![hook] = {p \in staged : ~ExcludeSearch(p)}]
    /\ hook' = hook + 1
    /\ UNCHANGED <<staged, otherThanPreCommit>>

NextPreCommit == RunHook

SpecPreCommit == InitPreCommit /\ [][NextPreCommit]_vars

(***************************************************************************)
(* Properties of the pre-commit configuration                              *)
(***************************************************************************)
\* the path lies under one of the five directories or is one of the two
\* files
MeantToBeExcluded(p) ==
    \/ p \in HookExcludedFiles
    \/ \E d \in HookExcludedDirs : IsBelow(d, p)

\* C6: the exclude pattern matches every path under yt/extern,
\* yt/frontends/stream/sample_data, yt/units, scripts or benchmark and the
\* files setupext.py and yt/visualization/_colormap_data.py, and no hook
\* is run on such a path.
C6_ExcludedPathsReachNoHook ==
    /\ \A p \in staged : MeantToBeExcluded(p) => ExcludeSearch(p)
    /\ \A h \in 1..NHooks : \A p \in received[h] : ~MeantToBeExcluded(p)

\* every hook has run on a commit that holds a path under an excluded
\* directory next to a path the hooks did receive
C6_Witness ==
    /\ hook = NHooks + 1
    /\ \E p \in staged : \E d \in HookExcludedDirs : IsBelow(d, p)
    /\ \A h \in 1..NHooks : received[h] # {}


UpperCase == <<"A","B","C","D","E","F","G","H","I","J","K","L","M","N","O","P","Q","R","S","T","U","V","W","X","Y","Z">>

LowerCase == <<"a","b","c","d","e","f","g","h","i","j","k","l","m","n","o","p","q","r","s","t","u","v","w","x","y","z">>

\* str.lower() on one character
LowerChar(c) ==
    IF \E i \in 1..Len(UpperCase) : UpperCase[i] = c
    THEN LowerCase[CHOOSE i \in 1..Len(UpperCase) : UpperCase[i] = c]
    ELSE c

\* str.lower()
Lower(s) == [i \in 1..Len(s) |-> LowerChar(s[i])]

\* d[k] = v
DictSet(d, k, v) ==
    [x \in (DOMAIN d) \cup {k} |-> IF x = k THEN v ELSE d[x]]

\* d without the key k, as d.pop(k) leaves it
DictWithout(d, k) == [x \in (DOMAIN d) \ {k} |-> d[x]]

\* the data of an HDU that holds none
NoData == 0

KmPerS == <<"k","m","/","s">>

\* the spellings under which the file may carry the name of an extension
NameSpellings(name) == {name, Lower(name)}

\* velocity_field_20.fits: a primary HDU with no data and three HDUs with
\* the velocity fields
FitsFiles ==
    { << [name |-> <<"P","R","I","M","A","R","Y">>, data |-> NoData],
         [name |-> nx, data |-> ax],
         [name |-> ny, data |-> ay],
         [name |-> nz, data |-> az] >> :
        nx \in NameSpellings(<<"X","-","V","E","L","O","C","I","T","Y">>),
        ny \in NameSpellings(<<"Y","-","V","E","L","O","C","I","T","Y">>),
        nz \in NameSpellings(<<"Z","-","V","E","L","O","C","I","T","Y">>),
        ax \in 1..MaxArrays, ay \in 1..MaxArrays, az \in 1..MaxArrays }

\* the HDUs the loop of the example goes through: all of f
LoopHdus(hdus) == hdus

\* f = pyfits.open(...); data = {}
InitFits ==
    /\ f \in FitsFiles
    /\ data = <<>>
    /\ hdu = 1
    /\ fitsCell = "loop"
    /\ ManifestIdle
    /\ PreCommitIdle
    /\ ParticlesIdle
    /\ AmrIdle
    /\ UnigridIdle
    /\ TrajectoriesIdle
    /\ FieldTypesIdle
    /\ XrayIdle

\* one pass of "for hdu in f": name = hdu.name.lower();
\* data[name] = (hdu.data, "km/s")
LoopBody ==
    /\ fitsCell = "loop"
    /\ hdu <= Len(LoopHdus(f))
    /\ LET h    == LoopHdus(f)[hdu]
           name == Lower(h.name)
       IN  data' = DictSet(data, name, <<h.data, KmPerS>>)
    /\ hdu' = hdu + 1
    /\ UNCHANGED <<f, fitsCell, otherThanFits>>

\* the loop is over; print(data.keys())
LoopEnd ==
    /\ fitsCell = "loop"
    /\ hdu > Len(LoopHdus(f))
    /\ fitsCell' = "rename_x"
    /\ UNCHANGED <<f, data, hdu, otherThanFits>>

\* data[new] = data.pop(old); a missing key raises KeyError and the cell
\* stops
Rename(cell, old, new, next) ==
    /\ fitsCell = cell
    /\ IF old \in DOMAIN data
       THEN /\ data' = DictSet(DictWithout(data, old), new, data[old])
            /\ fitsCell' = next
       ELSE /\ fitsCell' = "KeyError"
            /\ UNCHANGED data
    /\ UNCHANGED <<f, hdu, otherThanFits>>

RenameX == Rename("rename_x", <<"x","-","v","e","l","o","c","i","t","y">>, <<"v","e","l","o","c","i","t","y","_","x">>, "rename_y")

RenameY == Rename("rename_y", <<"y","-","v","e","l","o","c","i","t","y">>, <<"v","e","l","o","c","i","t","y","_","y">>, "rename_z")

RenameZ == Rename("rename_z", <<"z","-","v","e","l","o","c","i","t","y">>, <<"v","e","l","o","c","i","t","y","_","z">>, "renamed")

NextFits == LoopBody \/ LoopEnd \/ RenameX \/ RenameY \/ RenameZ

SpecFits == InitFits /\ [][NextFits]_vars

(***************************************************************************)
(* Properties of the FITS example                                          *)
(***************************************************************************)
VelocityFields == {<<"v","e","l","o","c","i","t","y","_","x">>, <<"v","e","l","o","c","i","t","y","_","y">>, <<"v","e","l","o","c","i","t","y","_","z">>}

\* C7: after the loop and the three renames the keys of data are exactly
\* velocity_x, velocity_y and velocity_z, each mapped to the data of its
\* HDU with the unit km/s, and no entry comes from the primary HDU.
C7_DataHoldsOnlyVelocityFields ==
    fitsCell = "renamed" =>
        /\ DOMAIN data = VelocityFields
        /\ data[<<"v","e","l","o","c","i","t","y","_","x">>] = <<f[2].data, KmPerS>>
        /\ data[<<"v","e","l","o","c","i","t","y","_","y">>] = <<f[3].data, KmPerS>>
        /\ data[<<"v","e","l","o","c","i","t","y","_","z">>] = <<f[4].data, KmPerS>>
        /\ \A k \in DOMAIN data : data[k][1] # NoData

(***************************************************************************)
(* Loading generic particle data                                           *)
(*                                                                         *)
(* Positions are whole multiples of 5e5, so that 1e6 * z is 2 * z and      *)
(* 5e5 * z is z for a sample z; a bounding box is kept in tenths of that   *)
(* unit, so that 1.1 * x is 11 * x.                                        *)
(***************************************************************************)
\* the samples np.random.normal may return
Deviates == (-MaxDeviate)..MaxDeviate

\* 1e6 * sample, in units of 5e5
Scale1e6 == 2

\* 5e5 * sample, in units of 5e5
Scale5e5 == 1

\* 1.1 * x, in tenths
Times1Point1(x) == 11 * x

\* a position in the unit of the bounding box
InBoxUnits(x) == 10 * x

Range(s) == {s[i] : i \in DOMAIN s}

\* min(s)
Min(s) == CHOOSE v \in Range(s) : \A w \in Range(s) : v <= w

\* max(s)
Max(s) == CHOOSE v \in Range(s) : \A w \in Range(s) : v >= w

\* scale * np.random.normal(size=n), every array the call may return
Normal(scale, n) ==
    {[i \in 1..n |-> scale * z[i]] : z \in [1..n -> Deviates]}

\* np.ones(n), in units of 0.1
Ones(n) == [i \in 1..n |-> 10]

\* 0.1 * np.ones(n), in units of 0.1
TenthOnes(n) == [i \in 1..n |-> 1]

\* 1.1 * np.array([[min(x), max(x)], [min(y), max(y)], [min(z), max(z)]])
BoundingBox(x, y, z) ==
    << <<Times1Point1(Min(x)), Times1Point1(Max(x))>>,
       <<Times1Point1(Min(y)), Times1Point1(Max(y))>>,
       <<Times1Point1(Min(z)), Times1Point1(Max(z))>> >>

Axes == <<"x", "y", "z">>

PositionField(axis) ==
    CASE axis = "x" -> "particle_position_x"
      [] axis = "y" -> "particle_position_y"
      [] axis = "z" -> "particle_position_z"

\* ppx, ppy, ppz = 1e6 * np.random.normal(size=[3, n_particles]);
\* ppm = np.ones(n_particles)
InitParticles ==
    /\ ppx \in Normal(Scale1e6, NParticles)
    /\ ppy \in Normal(Scale1e6, NParticles)
    /\ ppz \in Normal(Scale1e6, NParticles)
    /\ ppm = Ones(NParticles)
    /\ particle_data = <<>>
    /\ bbox = <<>>
    /\ ds = <<>>
    /\ data2 = <<>>
    /\ ds2 = <<>>
    /\ particleCell = "data"
    /\ ManifestIdle
    /\ PreCommitIdle
    /\ FitsIdle
    /\ AmrIdle
    /\ UnigridIdle
    /\ TrajectoriesIdle
    /\ FieldTypesIdle
    /\ XrayIdle

\* data = {"particle_position_x": ppx, ...}
BuildData ==
    /\ particleCell = "data"
    /\ particle_data' = [particle_position_x |-> ppx,
                         particle_position_y |-> ppy,
                         particle_position_z |-> ppz,
                         particle_mass |-> ppm]
    /\ particleCell' = "load"
    /\ UNCHANGED <<ppx, ppy, ppz, ppm, bbox, ds, data2, ds2,
                   otherThanParticles>>

\* bbox = 1.1 * np.array(...); ds = yt.load_particles(data, ..., bbox=bbox)
LoadParticles ==
    /\ particleCell = "load"
    /\ bbox' = BoundingBox(ppx, ppy, ppz)
    /\ ds' = [data |-> particle_data, bbox |-> bbox']
    /\ particleCell' = "data2"
    /\ UNCHANGED <<ppx, ppy, ppz, ppm, particle_data, data2, ds2,
                   otherThanParticles>>

\* the bounding box the second load_particles call is given: the variable
\* bbox of the first call
Bbox2(box, d2) == box

\* the dm and star arrays are drawn, data2 is built and
\* ds2 = yt.load_particles(data2, ..., n_ref=256, bbox=bbox)
LoadParticles2 ==
    /\ particleCell = "data2"
    /\ \E ppxd \in Normal(Scale1e6, NDmParticles),
          ppyd \in Normal(Scale1e6, NDmParticles),
          ppzd \in Normal(Scale1e6, NDmParticles),
          ppxs \in Normal(Scale5e5, NStarParticles),
          ppys \in Normal(Scale5e5, NStarParticles),
          ppzs \in Normal(Scale5e5, NStarParticles) :
          data2' =
              (<<"dm", "particle_position_x">> :> ppxd) @@
              (<<"dm", "particle_position_y">> :> ppyd) @@
              (<<"dm", "particle_position_z">> :> ppzd) @@
              (<<"dm", "particle_mass">> :> Ones(NDmParticles)) @@
              (<<"star", "particle_position_x">> :> ppxs) @@
              (<<"star", "particle_position_y">> :> ppys) @@
              (<<"star", "particle_position_z">> :> ppzs) @@
              (<<"star", "particle_mass">> :> TenthOnes(NStarParticles))
    /\ ds2' = [data |-> data2', bbox |-> Bbox2(bbox, data2')]
    /\ particleCell' = "loaded"
    /\ UNCHANGED <<ppx, ppy, ppz, ppm, particle_data, bbox, ds,
                   otherThanParticles>>

NextParticles == BuildData \/ LoadParticles \/ LoadParticles2

SpecParticles == InitParticles /\ [][NextParticles]_vars

(***************************************************************************)
(* Properties of the particle example                                      *)
(***************************************************************************)
\* every element of the position array lies within the box on that axis
ArrayInBox(positions, box, a) ==
    \A i \in DOMAIN positions :
        /\ box[a][1] <= InBoxUnits(positions[i])
        /\ InBoxUnits(positions[i]) <= box[a][2]

\* C8: the bbox passed to the first load_particles call contains every
\* particle of the data dictionary on every axis.
C8_BboxContainsParticles ==
    ds # <<>> =>
        \A a \in 1..3 : ArrayInBox(ds.data[PositionField(Axes[a])], ds.bbox, a)

\* C9: the bbox passed to the second load_particles call contains every
\* "dm" and every "star" particle of data2 on every axis.
C9_Bbox2ContainsParticles ==
    ds2 # <<>> =>
        \A a \in 1..3 : \A t \in {"dm", "star"} :
            ArrayInBox(ds2.data[<<t, PositionField(Axes[a])>>], ds2.bbox, a)

(***************************************************************************)
(* Loading generic array data: the AMR example                             *)
(*                                                                         *)
(* Lengths are whole multiples of 1/64 of the unit of the notebook, so     *)
(* that 0.25 is 16, 0.75 is 48 and 1.0 is 64.                              *)
(***************************************************************************)
\* 1.0 in units of 1/64
UnitLength == 64

\* a grid_data whose level-1 grid has the cell width of the level-0 grid
GridDataCoarseSubgrid == <<
    [left_edge |-> <<0, 0, 0>>, right_edge |-> <<64, 64, 64>>,
     level |-> 0, dimensions |-> <<32, 32, 32>>],
    [left_edge |-> <<16, 16, 16>>, right_edge |-> <<48, 48, 48>>,
     level |-> 1, dimensions |-> <<16, 16, 16>>] >>

\* a grid_data whose level-1 grid sticks out of the level-0 grid
GridDataSubgridOutside == <<
    [left_edge |-> <<0, 0, 0>>, right_edge |-> <<64, 64, 64>>,
     level |-> 0, dimensions |-> <<32, 32, 32>>],
    [left_edge |-> <<48, 48, 48>>, right_edge |-> <<80, 80, 80>>,
     level |-> 1, dimensions |-> <<32, 32, 32>>] >>

\* the literal grid_data of the notebook
GridData == <<
    [left_edge |-> <<0, 0, 0>>, right_edge |-> <<64, 64, 64>>,
     level |-> 0, dimensions |-> <<32, 32, 32>>],
    [left_edge |-> <<16, 16, 16>>, right_edge |-> <<48, 48, 48>>,
     level |-> 1, dimensions |-> <<32, 32, 32>>] >>

\* the domain_dimensions argument of the load_amr_grids call
DomainDimensions == <<32, 32, 32>>

\* the domain of load_amr_grids when no bbox is passed: the unit cube
DefaultBbox == << <<0, UnitLength>>, <<0, UnitLength>>, <<0, UnitLength>> >>

\* 2 ** n
RECURSIVE Pow2(_)
Pow2(n) == IF n = 0 THEN 1 ELSE 2 * Pow2(n - 1)

\* prng.random(shape) * scale: an array of that shape with values in
\* [0, scale)
RandomArray(shape, scale) == [shape |-> shape, below |-> scale]

\* a uniform that takes its arguments for a centre and a width
UniformAroundLow(low, high, n) ==
    LET points == {(low - high) + ((k * 2 * high) \div UniformSamples) :
                      k \in 0..(UniformSamples - 1)}
    IN  [1..n -> points]

\* prng.uniform(low, high, size=n): every array the call may return, its
\* values taken from UniformSamples points of [low, high)
Uniform(low, high, n) ==
    LET points == {low + ((k * (high - low)) \div UniformSamples) :
                      k \in 0..(UniformSamples - 1)}
    IN  [1..n -> points]

\* r with the extra key k, as g[k] = v leaves a grid dictionary
WithField(r, k, v) ==
    [x \in (DOMAIN r) \cup {k} |-> IF x = k THEN v ELSE r[x]]

InitAmr ==
    /\ grid_data = GridData
    /\ g = 1
    /\ amr_ds = <<>>
    /\ amrCell = "density"
    /\ ManifestIdle
    /\ PreCommitIdle
    /\ FitsIdle
    /\ ParticlesIdle
    /\ UnigridIdle
    /\ TrajectoriesIdle
    /\ FieldTypesIdle
    /\ XrayIdle

\* one pass of "for g in grid_data":
\* g["density"] = (prng.random(g["dimensions"]) * 2 ** g["level"], "g/cm**3")
FillDensity ==
    /\ amrCell = "density"
    /\ g <= Len(grid_data)
    /\ grid_data' =
          [grid_data EXCEPT
              ![g] = WithField(@, "density",
                        <<RandomArray(@.dimensions, Pow2(@.level)),
                          "g/cm**3">>)]
    /\ g' = g + 1
    /\ UNCHANGED <<amr_ds, amrCell, otherThanAmr>>

DensityDone ==
    /\ amrCell = "density"
    /\ g > Len(grid_data)
    /\ amrCell' = "particles"
    /\ UNCHANGED <<grid_data, g, amr_ds, otherThanAmr>>

\* the particle positions of both grids: empty arrays for the level-0
\* grid, prng.uniform(low=0.25, high=0.75, size=1000) for the level-1 grid
SetParticles ==
    /\ amrCell = "particles"
    /\ \E px \in Uniform(16, 48, NGridParticles),
          py \in Uniform(16, 48, NGridParticles),
          pz \in Uniform(16, 48, NGridParticles) :
          grid_data' =
              [grid_data EXCEPT
                  ![1] = WithField(WithField(WithField(@,
                            "particle_position_x", <<<<>>, "code_length">>),
                            "particle_position_y", <<<<>>, "code_length">>),
                            "particle_position_z", <<<<>>, "code_length">>),
                  ![2] = WithField(WithField(WithField(@,
                            "particle_position_x", <<px, "code_length">>),
                            "particle_position_y", <<py, "code_length">>),
                            "particle_position_z", <<pz, "code_length">>)]
    /\ amrCell' = "load"
    /\ UNCHANGED <<g, amr_ds, otherThanAmr>>

\* ds = yt.load_amr_grids(grid_data, [32, 32, 32])
LoadAmrGrids ==
    /\ amrCell = "load"
    /\ amr_ds' = [grids |-> grid_data,
                  domain_dimensions |-> DomainDimensions,
                  domain_left_edge |-> [a \in 1..3 |-> DefaultBbox[a][1]],
                  domain_right_edge |-> [a \in 1..3 |-> DefaultBbox[a][2]]]
    /\ amrCell' = "loaded"
    /\ UNCHANGED <<grid_data, g, otherThanAmr>>

NextAmr == FillDensity \/ DensityDone \/ SetParticles \/ LoadAmrGrids

SpecAmr == InitAmr /\ [][NextAmr]_vars

(***************************************************************************)
(* Properties of the AMR example                                           *)
(***************************************************************************)
\* C10: in the dataset load_amr_grids builds, the level-0 grid has the
\* edges of the domain and the dimensions [32, 32, 32] passed as
\* domain_dimensions, and the level-1 grid lies within the level-0 grid on
\* every axis.
C10_TopGridCoversDomainSubgridInside ==
    amrCell = "loaded" =>
        LET top == amr_ds.grids[1]
            sub == amr_ds.grids[2]
        IN  /\ top.level = 0
            /\ sub.level = 1
            /\ top.left_edge = amr_ds.domain_left_edge
            /\ top.right_edge = amr_ds.domain_right_edge
            /\ top.dimensions = amr_ds.domain_dimensions
            /\ top.dimensions = <<32, 32, 32>>
            /\ \A a \in 1..3 :
                  /\ top.left_edge[a] <= sub.left_edge[a]
                  /\ sub.left_edge[a] < sub.right_edge[a]
                  /\ sub.right_edge[a] <= top.right_edge[a]

\* load_amr_grids has been called on the two grids, the second of which
\* carries particles
C10_Witness ==
    /\ amrCell = "loaded"
    /\ Len(amr_ds.grids) = 2
    /\ amr_ds.grids[2]["particle_position_x"][1] # <<>>

PositionKeys ==
    <<"particle_position_x", "particle_position_y", "particle_position_z">>

\* the positions attached to a grid, one triple per particle
GridParticles(grid) ==
    {[a \in 1..3 |-> grid[PositionKeys[a]][1][k]] :
        k \in DOMAIN grid[PositionKeys[1]][1]}

\* the point lies within the edges of the grid on every axis
WithinGrid(pos, grid) ==
    \A a \in 1..3 :
        grid.left_edge[a] <= pos[a] /\ pos[a] <= grid.right_edge[a]

\* C11: in the grid data handed to load_amr_grids every particle attached
\* to a grid lies within the edges of that grid and inside no grid of a
\* higher level; the level-0 grid carries no particle and every level-1
\* particle is in [0.25, 0.75] on each axis.
C11_ParticlesMatchTheirGrids ==
    amrCell = "loaded" =>
        LET grids == amr_ds.grids
        IN  /\ \A i \in DOMAIN grids : \A pos \in GridParticles(grids[i]) :
                  /\ WithinGrid(pos, grids[i])
                  /\ \A j \in DOMAIN grids :
                        grids[j].level > grids[i].level
                            => ~WithinGrid(pos, grids[j])
            /\ GridParticles(grids[1]) = {}
            /\ \A pos \in GridParticles(grids[2]) : \A a \in 1..3 :
                  16 <= pos[a] /\ pos[a] <= 48

\* load_amr_grids has been called with a particle of the level-1 grid that
\* sits on the left edge of that grid on the x axis
C11_Witness ==
    /\ amrCell = "loaded"
    /\ \E pos \in GridParticles(amr_ds.grids[2]) : pos[1] = 16

\* C20: for every grid and axis the cell width (right_edge - left_edge) /
\* dimensions equals the domain width / (domain_dimensions * 2 ** level),
\* so a level-1 cell is 1/64 wide and a level-0 cell 1/32.
C20_RefinementFactorTwo ==
    amrCell = "loaded" =>
        /\ \A i \in DOMAIN amr_ds.grids : \A a \in 1..3 :
              LET grid  == amr_ds.grids[i]
                  width == amr_ds.domain_right_edge[a]
                               - amr_ds.domain_left_edge[a]
              IN  (grid.right_edge[a] - grid.left_edge[a])
                      * amr_ds.domain_dimensions[a] * Pow2(grid.level)
                  = width * grid.dimensions[a]
        /\ \A a \in 1..3 :
              /\ (amr_ds.grids[1].right_edge[a] - amr_ds.grids[1].left_edge[a])
                     * 32 = UnitLength * amr_ds.grids[1].dimensions[a]
              /\ (amr_ds.grids[2].right_edge[a] - amr_ds.grids[2].left_edge[a])
                     * 64 = UnitLength * amr_ds.grids[2].dimensions[a]

\* load_amr_grids has been called on grids of both levels
C20_Witness ==
    /\ amrCell = "loaded"
    /\ {amr_ds.grids[i].level : i \in DOMAIN amr_ds.grids} = {0, 1}

(***************************************************************************)
(* Loading generic array data: the unigrid example                         *)
(*                                                                         *)
(* load_uniform_grid is described by the notebook only: with nprocs        *)
(* greater than 1 it creates that number of subarrays out of the data.     *)
(* A grid is a box of cells, left inclusive and right exclusive.           *)
(***************************************************************************)
\* arr = prng.random(size=(64, 64, 64)); arr.shape
ArrShape == <<64, 64, 64>>

Divisors(n) == {d \in 1..n : n % d = 0}

\* the ways to cut the domain into px * py * pz = n pieces
Factorisations(n) ==
    {p \in Divisors(n) \X Divisors(n) \X Divisors(n) :
        p[1] * p[2] * p[3] = n}

\* the area of the cuts a factorisation makes through the domain
CutArea(shape, p) ==
    (p[1] - 1) * shape[2] * shape[3]
        + (p[2] - 1) * shape[1] * shape[3]
        + (p[3] - 1) * shape[1] * shape[2]

\* the number of pieces along each axis: a factorisation of n that leaves
\* no piece empty and keeps the cuts smallest
Psize(shape, n) ==
    LET fits == {p \in Factorisations(n) : \A a \in 1..3 : p[a] <= shape[a]}
    IN  CHOOSE p \in fits :
            \A q \in fits : CutArea(shape, p) <= CutArea(shape, q)

\* a piece start that leaves one layer of cells shared with the piece
\* before
PieceStartWithGhostLayer(cells, pieces, i) ==
    IF i = 0 THEN 0 ELSE ((cells * i) \div pieces) - 1

\* the first cell of piece i when cells are cut into pieces
PieceStart(cells, pieces, i) == (cells * i) \div pieces

\* the subarrays of a domain of the given shape cut into n pieces
Decompose(shape, n) ==
    LET p == Psize(shape, n)
    IN  [idx \in (0..(p[1] - 1)) \X (0..(p[2] - 1)) \X (0..(p[3] - 1)) |->
            [left_cell  |-> [a \in 1..3 |->
                                PieceStart(shape[a], p[a], idx[a])],
             right_cell |-> [a \in 1..3 |->
                                (shape[a] * (idx[a] + 1)) \div p[a]]]]

\* arr and the arguments of the load_uniform_grid call; the notebook passes
\* nprocs=64
InitUnigrid ==
    /\ arr_shape = ArrShape
    /\ nprocs \in 1..MaxNprocs
    /\ uni_ds = <<>>
    /\ uniCell = "load"
    /\ ManifestIdle
    /\ PreCommitIdle
    /\ FitsIdle
    /\ ParticlesIdle
    /\ AmrIdle
    /\ TrajectoriesIdle
    /\ FieldTypesIdle
    /\ XrayIdle

\* ds = yt.load_uniform_grid(data, arr.shape, length_unit="Mpc", bbox=bbox,
\*                           nprocs=nprocs)
LoadUniformGrid ==
    /\ uniCell = "load"
    /\ uni_ds' = [domain_dimensions |-> arr_shape,
                  grids |-> Decompose(arr_shape, nprocs)]
    /\ uniCell' = "loaded"
    /\ UNCHANGED <<arr_shape, nprocs, otherThanUnigrid>>

NextUnigrid == LoadUniformGrid

SpecUnigrid == InitUnigrid /\ [][NextUnigrid]_vars

(***************************************************************************)
(* Properties of the unigrid example                                       *)
(***************************************************************************)
Volume(grid) ==
    (grid.right_cell[1] - grid.left_cell[1])
        * (grid.right_cell[2] - grid.left_cell[2])
        * (grid.right_cell[3] - grid.left_cell[3])

\* the two boxes share a cell
Overlap(g1, g2) ==
    \A a \in 1..3 :
        g1.left_cell[a] < g2.right_cell[a]
            /\ g2.left_cell[a] < g1.right_cell[a]

RECURSIVE TotalVolume(_, _)
TotalVolume(grids, ids) ==
    IF ids = {} THEN 0
    ELSE LET i == CHOOSE x \in ids : TRUE
         IN  Volume(grids[i]) + TotalVolume(grids, ids \ {i})

\* the grids are pairwise disjoint, lie in the domain and have the volume
\* of the domain between them: every cell is in exactly one grid
ExactCover(grids, shape) ==
    /\ \A i \in DOMAIN grids : \A a \in 1..3 :
          /\ 0 <= grids[i].left_cell[a]
          /\ grids[i].left_cell[a] < grids[i].right_cell[a]
          /\ grids[i].right_cell[a] <= shape[a]
    /\ \A i, j \in DOMAIN grids : i # j => ~Overlap(grids[i], grids[j])
    /\ TotalVolume(grids, DOMAIN grids) = shape[1] * shape[2] * shape[3]

Digits == <<"0","1","2","3","4","5","6","7","8","9">>

\* the characters of the file names, in the order of their code points
Alphabet ==
    <<".","/","0","1","2","3","4","5","6","7","8","9","A","B","C","D","E","F","G","H","I","J","K","L","M","N","O","P","Q","R","S","T","U","V","W","X","Y","Z","_","a","b","c","d","e","f","g","h","i","j","k","l","m","n","o","p","q","r","s","t","u","v","w","x","y","z">>

CharCode(c) == CHOOSE k \in 1..Len(Alphabet) : Alphabet[k] = c

\* a < b for Python strings
RECURSIVE LexLess(_, _)
LexLess(a, b) ==
    IF b = <<>> THEN FALSE
    ELSE IF a = <<>> THEN TRUE
    ELSE IF a[1] = b[1] THEN LexLess(Tail(a), Tail(b))
    ELSE CharCode(a[1]) < CharCode(b[1])

\* s with x put before the first element that is greater than x
RECURSIVE Insert(_, _)
Insert(x, s) ==
    IF s = <<>> THEN <<x>>
    ELSE IF LexLess(x, s[1]) THEN <<x>> \o s
    ELSE <<s[1]>> \o Insert(x, Tail(s))

\* a list left in the order glob returned it
Unsorted(s) == s

\* list.sort() of a list of strings
RECURSIVE Sort(_)
Sort(s) == IF s = <<>> THEN <<>> ELSE Insert(s[1], Sort(Tail(s)))

\* the token of a pattern that stands for [0-9]
AnyDigit == "[0-9]"

\* "orbit_hdf5_chk_00[0-9][0-9]"
OrbitPattern == <<"o","r","b","i","t","_","h","d","f","5","_","c","h","k","_","0","0">> \o <<AnyDigit, AnyDigit>>

\* fnmatch of a name against a pattern of characters and [0-9] tokens
FnMatch(name, pat) ==
    /\ Len(name) = Len(pat)
    /\ \A k \in 1..Len(pat) :
          IF pat[k] = AnyDigit
          THEN \E d \in 1..Len(Digits) : Digits[d] = name[k]
          ELSE name[k] = pat[k]

\* the names a file of the Orbit directory may have
OrbitNames ==
    { <<"o","r","b","i","t","_","h","d","f","5","_","c","h","k","_","0","0","0","0">>, <<"o","r","b","i","t","_","h","d","f","5","_","c","h","k","_","0","0","0","2">>, <<"o","r","b","i","t","_","h","d","f","5","_","c","h","k","_","0","0","1","0">>,
      <<"o","r","b","i","t","_","h","d","f","5","_","c","h","k","_","0","1","0","0">>, <<"o","r","b","i","t","_","h","d","f","5","_","p","l","t","_","c","n","t","_","0","0","0","1">> }

\* the lists that hold every element of S once
Orders(S) ==
    {s \in [1..Cardinality(S) -> S] :
        \A i, j \in 1..Cardinality(S) : s[i] = s[j] => i = j}

\* glob.glob(join(path, "Orbit", pattern)): the matching names, in any order
Glob(dir, pat) == Orders({n \in dir : FnMatch(n, pat)})

\* the number a checkpoint file name ends with
ChkNumber(fn) ==
    LET digit(k) == (CHOOSE d \in 1..Len(Digits) :
                        Digits[d] = fn[Len(fn) - k]) - 1
    IN  1000 * digit(3) + 100 * digit(2) + 10 * digit(1) + digit(0)

\* "enzo_tiny_cosmology/DD*/*.hierarchy"
EnzoPattern == <<"e","n","z","o","_","t","i","n","y","_","c","o","s","m","o","l","o","g","y","/","D","D","*","/","*",".","h","i","e","r","a","r","c","h","y">>

\* "enzo_tiny_cosmology/DD0046/DD0046", the dataset the particles are
\* selected from
EnzoDataset == <<"e","n","z","o","_","t","i","n","y","_","c","o","s","m","o","l","o","g","y","/","D","D","0","0","4","6","/","D","D","0","0","4","6">>

\* the names a file below enzo_tiny_cosmology may have besides EnzoDataset
EnzoNames ==
    { <<"e","n","z","o","_","t","i","n","y","_","c","o","s","m","o","l","o","g","y","/","D","D","0","0","0","0","/","D","D","0","0","0","0",".","h","i","e","r","a","r","c","h","y">>,
      <<"e","n","z","o","_","t","i","n","y","_","c","o","s","m","o","l","o","g","y","/","D","D","0","0","1","0","/","D","D","0","0","1","0",".","h","i","e","r","a","r","c","h","y">>,
      <<"e","n","z","o","_","t","i","n","y","_","c","o","s","m","o","l","o","g","y","/","D","D","0","0","4","6","/","D","D","0","0","4","6",".","h","i","e","r","a","r","c","h","y">>,
      <<"e","n","z","o","_","t","i","n","y","_","c","o","s","m","o","l","o","g","y","/","R","D","0","0","0","1","/","R","D","0","0","0","1",".","h","i","e","r","a","r","c","h","y">> }

\* glob.glob(join(path, "enzo_tiny_cosmology/DD*/*.hierarchy")): "*"
\* stands for any run of characters within one directory level
GlobBelow(dir, pat) == Orders({n \in dir : GlobMatch(pat, n)})

\* the number of the output a .hierarchy file belongs to
DdNumber(fn) == ChkNumber(Take(fn, Len(fn) - Len(<<".","h","i","e","r","a","r","c","h","y">>)))

\* ds.current_time of the dataset of a file
CurrentTime(fn) ==
    IF EndsWith(fn, <<".","h","i","e","r","a","r","c","h","y">>) THEN DdNumber(fn) ELSE ChkNumber(fn)

\* the value of a field for one particle of the dataset of a file
ParticleValue(fn, field, index) == [particle |-> index, time |-> CurrentTime(fn)]

PositionFields ==
    {"particle_position_x", "particle_position_y", "particle_position_z"}

VelocityFieldList ==
    <<"particle_velocity_x", "particle_velocity_y", "particle_velocity_z">>

\* the lists of fields a caller may ask for
FieldLists ==
    {<<>>, VelocityFieldList, <<"particle_position_x", "particle_velocity_x">>}

\* trajectories that hold the requested fields only
RequestedFieldsOnly(flds) == Range(flds)

\* the fields of the trajectories: those asked for and the position fields
TrajectoryFields(flds) == Range(flds) \cup PositionFields

\* ts.particle_trajectories(indices, fields=fields)
ParticleTrajectories(outputs, idx, flds) ==
    [field \in TrajectoryFields(flds) \cup {"particle_time"} |->
        IF field = "particle_time"
        THEN [j \in 1..Len(outputs) |-> CurrentTime(outputs[j])]
        ELSE [i \in 1..Len(idx) |->
                [j \in 1..Len(outputs) |->
                    ParticleValue(outputs[j], field, idx[i])]]]

\* the Orbit directory and its datasets before the first cell runs
InitTrajectories ==
    /\ orbit_dir \in SubsetsUpTo(OrbitNames, MaxOrbitFiles)
    /\ orbit_particles \in 1..MaxOrbitParticles
    /\ enzo_dir \in SubsetsUpTo(EnzoNames, MaxEnzoFiles)
    /\ my_fns = <<>>
    /\ fields = <<>>
    /\ indices = <<>>
    /\ ts = <<>>
    /\ trajs = <<>>
    /\ trajCell = "glob"
    /\ ManifestIdle
    /\ PreCommitIdle
    /\ FitsIdle
    /\ ParticlesIdle
    /\ AmrIdle
    /\ UnigridIdle
    /\ FieldTypesIdle
    /\ XrayIdle

\* my_fns = glob.glob(join(path, "Orbit", "orbit_hdf5_chk_00[0-9][0-9]"))
\* my_fns.sort()
GlobAndSort ==
    /\ trajCell = "glob"
    /\ \E found \in Glob(orbit_dir, OrbitPattern) : my_fns' = Sort(found)
    /\ trajCell' = "fields"
    /\ UNCHANGED <<orbit_dir, orbit_particles, enzo_dir, fields, indices, ts,
                   trajs, otherThanTrajectories>>

\* fields = [...]; the notebook asks for the three velocity fields
SetFields ==
    /\ trajCell = "fields"
    /\ fields' \in FieldLists
    /\ trajCell' = "indices"
    /\ UNCHANGED <<orbit_dir, orbit_particles, enzo_dir, my_fns, indices, ts,
                   trajs, otherThanTrajectories>>

\* ds = yt.load(my_fns[0]); dd = ds.all_data()
\* indices = dd["all", "particle_index"].astype("int")
LoadIndices ==
    /\ trajCell = "indices"
    /\ my_fns # <<>>
    /\ indices' = [i \in 1..orbit_particles |-> i]
    /\ trajCell' = "series"
    /\ UNCHANGED <<orbit_dir, orbit_particles, enzo_dir, my_fns, fields, ts,
                   trajs, otherThanTrajectories>>

\* my_fns[0] of an empty list raises IndexError
LoadIndicesFails ==
    /\ trajCell = "indices"
    /\ my_fns = <<>>
    /\ trajCell' = "failed"
    /\ UNCHANGED <<orbit_dir, orbit_particles, enzo_dir, my_fns, fields,
                   indices, ts, trajs, otherThanTrajectories>>

\* ts = yt.DatasetSeries(my_fns)
\* trajs = ts.particle_trajectories(indices, fields=fields, ...)
MakeTrajectories ==
    /\ trajCell = "series"
    /\ ts' = my_fns
    /\ trajs' = ParticleTrajectories(ts', indices, fields)
    /\ trajCell' = "done"
    /\ UNCHANGED <<orbit_dir, orbit_particles, enzo_dir, my_fns, fields,
                   indices, otherThanTrajectories>>

\* ds = yt.load("enzo_tiny_cosmology/DD0046/DD0046")
\* sp = ds.sphere("max", (0.5, "Mpc"))
\* indices = sp["all", "particle_index"][sp["all", "particle_type"] == 1]
SelectEnzoParticles ==
    /\ trajCell = "done"
    /\ \E n \in {0, MaxOrbitParticles} : indices' = [i \in 1..n |-> i]
    /\ trajCell' = "enzo"
    /\ UNCHANGED <<orbit_dir, orbit_particles, enzo_dir, my_fns, fields, ts,
                   trajs, otherThanTrajectories>>

\* my_fns = glob.glob(join(path, "enzo_tiny_cosmology/DD*/*.hierarchy"))
\* my_fns.sort()
\* ts = yt.DatasetSeries(my_fns)
\* trajs = ts.particle_trajectories(indices, fields=fields, ...)
EnzoTrajectories ==
    /\ trajCell = "enzo"
    /\ \E found \in GlobBelow(enzo_dir \cup {EnzoDataset}, EnzoPattern) :
          my_fns' = Sort(found)
    /\ ts' = my_fns'
    /\ trajs' = ParticleTrajectories(ts', indices, fields)
    /\ trajCell' = "enzo_done"
    /\ UNCHANGED <<orbit_dir, orbit_particles, enzo_dir, fields, indices,
                   otherThanTrajectories>>

NextTrajectories ==
    \/ GlobAndSort
    \/ SetFields
    \/ LoadIndices
    \/ LoadIndicesFails
    \/ MakeTrajectories
    \/ SelectEnzoParticles
    \/ EnzoTrajectories

SpecTrajectories == InitTrajectories /\ [][NextTrajectories]_vars

Ascending(names) ==
    \A i, j \in 1..Len(names) : i < j => LexLess(names[i], names[j])

\* C21: the DatasetSeries of the Orbit files and the one of the Enzo files
\* are each made of the sorted list my_fns, so their datasets, and the
\* values of particle_time, follow the ascending order of the file names;
\* for the Orbit files, whose names end with a number of fixed width, that
\* is the ascending order of the checkpoint numbers.
C21_SeriesInFilenameOrder ==
    /\ Ascending(my_fns)
    /\ trajCell \in {"done", "enzo", "enzo_done"} =>
          /\ Ascending(ts)
          /\ Len(trajs["particle_time"]) = Len(ts)
          /\ \A j \in 1..Len(ts) :
                trajs["particle_time"][j] = CurrentTime(ts[j])
    /\ trajCell \in {"done", "enzo"} =>
          \A i, j \in 1..Len(ts) :
              i < j => ChkNumber(ts[i]) < ChkNumber(ts[j])

\* the Enzo series has been made of two files, after an Orbit series of
\* at least two files
C21_Witness ==
    /\ trajCell = "enzo_done"
    /\ Len(ts) = 2
    /\ Cardinality({n \in orbit_dir : FnMatch(n, OrbitPattern)}) >= 2

(***************************************************************************)
(* Field names of generic data                                             *)
(*                                                                         *)
(* The loaders are described by the notebooks only: particle field names   *)
(* are given as strings or as field tuples, and the default particle type  *)
(* is "io".  A key of a data dictionary is a tuple here: <<name>> for the  *)
(* string name and <<type, name>> for the field tuple (type, name).        *)
(***************************************************************************)
Loaders == {"load_uniform_grid", "load_amr_grids", "load_particles"}

ParticleFieldNames == {"particle_position_x", "particle_mass"}

\* the particle types the notebooks name in field tuples, and "io" itself
ParticleTypeNames == {"io", "dm", "star", "red", "blue"}

\* the keys a data dictionary may hold for its particle arrays
ParticleKeys ==
    {<<n>> : n \in ParticleFieldNames}
        \cup (ParticleTypeNames \X ParticleFieldNames)

\* a loader that files every particle field under the default type
FieldOfKeyAlwaysDefault(key) == <<"io", key[Len(key)]>>

\* the field a loader makes of a key
FieldOfKey(key) == IF Len(key) = 1 THEN <<"io", key[1]>> ELSE key

\* the fields of a dataset loaded from a dictionary with these keys
LoadedFields(keys) == [key \in keys |-> FieldOfKey(key)]

\* a data dictionary of particle arrays and the loader it will go to
InitFieldTypes ==
    /\ loader \in Loaders
    /\ stream_data \in SubsetsUpTo(ParticleKeys, MaxKeys)
    /\ stream_fields = <<>>
    /\ streamCell = "load"
    /\ ManifestIdle
    /\ PreCommitIdle
    /\ FitsIdle
    /\ ParticlesIdle
    /\ AmrIdle
    /\ UnigridIdle
    /\ TrajectoriesIdle
    /\ XrayIdle

\* ds = yt.load_uniform_grid(data, ...), yt.load_amr_grids(grid_data, ...)
\* or yt.load_particles(data, ...)
LoadGenericData ==
    /\ streamCell = "load"
    /\ stream_fields' = LoadedFields(stream_data)
    /\ streamCell' = "loaded"
    /\ UNCHANGED <<loader, stream_data, otherThanFieldTypes>>

NextFieldTypes == LoadGenericData

SpecFieldTypes == InitFieldTypes /\ [][NextFieldTypes]_vars

NotSet == 0

Flux == <<"fits", <<"f","l","u","x">>>>
Pixel == <<"fits", <<"p","i","x","e","l">>>>
ProjectedTemperature == <<"fits", <<"p","r","o","j","e","c","t","e","d","_","t","e","m","p","e","r","a","t","u","r","e">>>>
Counts == <<"gas", <<"c","o","u","n","t","s">>>>
PseudoPressure == <<"gas", <<"p","s","e","u","d","o","_","p","r","e","s","s","u","r","e">>>>
PseudoEntropy == <<"gas", <<"p","s","e","u","d","o","_","e","n","t","r","o","p","y">>>>

\* def _counts(field, data) and its ds.add_field
CountsField ==
    [name |-> Counts, reads |-> {Flux, Pixel},
     parameters |-> {"exposure_time"}]

\* def _pp(field, data) and its ds.add_field
PseudoPressureField ==
    [name |-> PseudoPressure, reads |-> {Counts, ProjectedTemperature},
     parameters |-> {}]

\* def _pe(field, data) and its ds.add_field
PseudoEntropyField ==
    [name |-> PseudoEntropy, reads |-> {ProjectedTemperature, Counts},
     parameters |-> {}]

\* the add_field calls with pseudo_pressure moved before counts
DerivedFieldsPressureFirst ==
    <<PseudoPressureField, CountsField, PseudoEntropyField>>

\* the add_field calls of the cell, in the order of the cell
DerivedFields == <<CountsField, PseudoPressureField, PseudoEntropyField>>

\* the fields of the files themselves and the fields every dataset has
OnDiskFields(d) ==
    IF d = "ds" THEN {Flux, Pixel, ProjectedTemperature}
    ELSE {<<"io", <<"e","v","e","n","t","_","x">>>>, <<"io", <<"e","v","e","n","t","_","y">>>>,
          <<"io", <<"e","v","e","n","t","_","e","n","e","r","g","y">>>>, <<"io", <<"e","v","e","n","t","_","t","i","m","e">>>>}

BuiltinFields == {<<"index", <<"r","a","d","i","u","s">>>>, <<"index", <<"o","n","e","s">>>>}

\* ebounds = [(0.1, 2.0), (2.0, 5.0)], in tenths of a keV
Ebounds == <<<<1, 20>>, <<20, 50>>>>

\* the decimal digits of a natural number
RECURSIVE Decimal(_)
Decimal(n) ==
    IF n < 10 THEN <<Digits[n + 1]>>
    ELSE Decimal(n \div 10) \o <<Digits[(n % 10) + 1]>>

\* a float written without a fraction that is zero, as "%g" writes it
FormatFloatShort(tenths) ==
    IF tenths % 10 = 0 THEN Decimal(tenths \div 10)
    ELSE Decimal(tenths \div 10) \o <<".">> \o Decimal(tenths % 10)

\* str() of a float that is a whole number of tenths
FormatFloat(tenths) ==
    Decimal(tenths \div 10) \o <<".">> \o Decimal(tenths % 10)

\* the name of the field of one energy band: counts_<emin>-<emax>
CountsFieldName(band) ==
    <<"c","o","u","n","t","s","_">> \o FormatFloat(band[1]) \o <<"-">> \o FormatFloat(band[2])

\* setup_counts_fields(ds, ebounds): the fields it adds, one for each band
SetupCountsFields(ebounds) ==
    [b \in 1..Len(ebounds) |->
        [name |-> <<"gas", CountsFieldName(ebounds[b])>>,
         reads |-> {<<"io", <<"e","v","e","n","t","_","x">>>>, <<"io", <<"e","v","e","n","t","_","y">>>>,
                    <<"io", <<"e","v","e","n","t","_","e","n","e","r","g","y">>>>},
         parameters |-> {"sigma"}]]

\* my_sphere = ds.sphere(c, (100.0, "code_length"))
SphereRadius == 100

\* "# Radius of 150 pixels"
RadiusInComment == 150

\* radial_profile.set_xlim(3, 100.0)
ProfileXlim == <<3, 100>>

\* field_parameters={"sigma": 2.0}
Sigma == 2

\* a statement: what it does (op), the dataset and the object or plot it
\* names, the fields it evaluates and the field parameters it passes
Statement(op, d, name, flds, params) ==
    [op |-> op, ds |-> d, name |-> name, fields |-> flds, params |-> params]

\* the field_parameters of the first SlicePlot left out
SliceParametersLeftOut == {}

\* field_parameters={"exposure_time": exposure_time} of the first SlicePlot
SliceParameters == {"exposure_time"}

PlotFields == <<Flux, ProjectedTemperature, PseudoPressure, PseudoEntropy>>

BandFields == << <<"gas", <<"c","o","u","n","t","s","_","0",".","1","-","2",".","0">>>>, <<"gas", <<"c","o","u","n","t","s","_","2",".","0","-","5",".","0">>>> >>

\* the statements of the notebook from yt.load on
XrayNotebook ==
    <<Statement("load", "ds", "", <<>>, {})>>
    \o [k \in 1..Len(DerivedFields) |->
           Statement("add_field", "ds", "", <<k>>, {})]
    \o <<Statement("exposure_time", "ds", "", <<>>, {}),
         Statement("build", "ds", "slc", PlotFields, SliceParameters),
         Statement("build", "ds", "find_max", <<Flux>>, {}),
         Statement("sphere", "ds", "my_sphere", <<>>, {}),
         Statement("set_field_parameter", "ds", "my_sphere", <<>>,
                   {"exposure_time"}),
         Statement("on", "ds", "my_sphere",
                   << <<<<"r","a","d","i","u","s">>>>, <<<<"c","o","u","n","t","s">>>>, <<<<"p","s","e","u","d","o","_","p","r","e","s","s","u","r","e">>>>,
                      <<<<"p","s","e","u","d","o","_","e","n","t","r","o","p","y">>>>, <<<<"o","n","e","s">>>> >>, {}),
         Statement("set_xlim", "ds", "radial_profile", <<>>, {}),
         Statement("on", "ds", "my_sphere",
                   << <<<<"p","s","e","u","d","o","_","p","r","e","s","s","u","r","e">>>>, <<<<"p","s","e","u","d","o","_","e","n","t","r","o","p","y">>>>,
                      <<<<"c","o","u","n","t","s">>>> >>, {}),
         Statement("region", "ds", "circle_reg", <<>>, {"exposure_time"}),
         Statement("on", "ds", "circle_reg",
                   << <<<<"p","r","o","j","e","c","t","e","d","_","t","e","m","p","e","r","a","t","u","r","e">>>>, <<<<"c","o","u","n","t","s">>>> >>, {}),
         Statement("build", "ds", "prj", PlotFields, {"exposure_time"}),
         Statement("load", "ds2", "", <<>>, {}),
         Statement("setup_counts_fields", "ds2", "", <<>>, {}),
         Statement("build", "ds2", "dd",
                   << <<"io", <<"e","v","e","n","t","_","x">>>>, <<"io", <<"e","v","e","n","t","_","y">>>> >>, {}),
         Statement("build", "ds2", "slc", BandFields, {}),
         Statement("build", "ds2", "slc", BandFields, {"sigma"})>>

NStatements == Len(XrayNotebook)

XrayDone == xrayCell = NStatements + 1 /\ pending = <<>>

\* the fields a dataset knows at the moment
KnownFields(d) ==
    OnDiskFields(d) \cup BuiltinFields
        \cup {field_info[d][k].name : k \in DOMAIN field_info[d]}

\* the field a key stands for: a tuple is the field itself, a string is
\* the known field of that name
Resolve(d, key) ==
    IF Len(key) = 2 THEN key
    ELSE IF \E fld \in KnownFields(d) : fld[2] = key[1]
         THEN CHOOSE fld \in KnownFields(d) : fld[2] = key[1]
         ELSE <<"unknown", key[1]>>

\* what the function of a derived field reads, nothing for other fields
Reads(d, fld) ==
    UNION {field_info[d][k].reads :
              k \in {j \in DOMAIN field_info[d] : field_info[d][j].name = fld}}

\* a field and all that evaluating it evaluates in turn, followed through
\* at most depth derived fields
RECURSIVE Touched(_, _, _)
Touched(d, fld, depth) ==
    IF depth = 0 THEN {fld}
    ELSE {fld} \cup UNION {Touched(d, r, depth - 1) : r \in Reads(d, fld)}

\* the value a statement passes for a field parameter
ParameterValue(name) == IF name = "exposure_time" THEN exposure_time ELSE Sigma

FieldParameters(names) == [n \in names |-> ParameterValue(n)]

\* the record of one evaluation of a field on a data object
Evaluation(d, obj, fld) ==
    [ds |-> d, object |-> obj, field |-> fld,
     known |-> fld \in KnownFields(d),
     field_parameters |-> objects[obj].field_parameters]

\* the state before yt.load: the flux file and its primary header
InitXray ==
    /\ primary_header \in [exposure : 1..MaxExposure]
    /\ field_info = <<>>
    /\ exposure_time = NotSet
    /\ objects = <<>>
    /\ plots = <<>>
    /\ pending = <<>>
    /\ evaluated = {}
    /\ xrayCell = 1
    /\ ManifestIdle
    /\ PreCommitIdle
    /\ FitsIdle
    /\ ParticlesIdle
    /\ AmrIdle
    /\ UnigridIdle
    /\ TrajectoriesIdle
    /\ FieldTypesIdle

\* the statement to run next, once the one before has evaluated its fields
Ready(op) ==
    /\ pending = <<>>
    /\ xrayCell \in 1..NStatements
    /\ XrayNotebook[xrayCell].op = op

\* ds = yt.load(...); ds2 = yt.load(...)
LoadFits ==
    /\ Ready("load")
    /\ field_info' = DictSet(field_info, XrayNotebook[xrayCell].ds, <<>>)
    /\ xrayCell' = xrayCell + 1
    /\ UNCHANGED <<primary_header, exposure_time, objects, plots, pending,
                   evaluated, otherThanXray>>

\* ds.add_field(name, function=..., ...)
AddField ==
    /\ Ready("add_field")
    /\ LET s == XrayNotebook[xrayCell]
       IN  field_info' =
               DictSet(field_info, s.ds,
                       Append(field_info[s.ds], DerivedFields[s.fields[1]]))
    /\ xrayCell' = xrayCell + 1
    /\ UNCHANGED <<primary_header, exposure_time, objects, plots, pending,
                   evaluated, otherThanXray>>

\* exposure_time = ds.quan(ds.primary_header["exposure"], "s")
GetExposureTime ==
    /\ Ready("exposure_time")
    /\ exposure_time' = primary_header.exposure
    /\ xrayCell' = xrayCell + 1
    /\ UNCHANGED <<primary_header, field_info, objects, plots, pending,
                   evaluated, otherThanXray>>

\* a data object of a dataset with its field parameters
DataObject(s, radius) ==
    [ds |-> s.ds, radius |-> radius,
     field_parameters |-> FieldParameters(s.params)]

\* yt.SlicePlot, yt.ProjectionPlot, ds.find_max, ds2.all_data(): a new data
\* object is made with the field parameters given and the fields are
\* evaluated on it
Build ==
    /\ Ready("build")
    /\ LET s == XrayNotebook[xrayCell]
       IN  /\ objects' = DictSet(objects, s.name, DataObject(s, NotSet))
           /\ pending' = [k \in 1..Len(s.fields) |->
                             [object |-> s.name, key |-> s.fields[k]]]
    /\ xrayCell' = xrayCell + 1
    /\ UNCHANGED <<primary_header, field_info, exposure_time, plots,
                   evaluated, otherThanXray>>

\* my_sphere = ds.sphere(c, (100.0, "code_length"))
MakeSphere ==
    /\ Ready("sphere")
    /\ LET s == XrayNotebook[xrayCell]
       IN  objects' = DictSet(objects, s.name, DataObject(s, SphereRadius))
    /\ xrayCell' = xrayCell + 1
    /\ UNCHANGED <<primary_header, field_info, exposure_time, plots,
                   pending, evaluated, otherThanXray>>

\* my_sphere.set_field_parameter("exposure_time", exposure_time)
SetFieldParameter ==
    /\ Ready("set_field_parameter")
    /\ LET s == XrayNotebook[xrayCell]
           o == objects[s.name]
       IN  objects' =
               DictSet(objects, s.name,
                       [o EXCEPT !.field_parameters =
                            FieldParameters(s.params) @@ @])
    /\ xrayCell' = xrayCell + 1
    /\ UNCHANGED <<primary_header, field_info, exposure_time, plots,
                   pending, evaluated, otherThanXray>>

\* circle_reg = ds9_region(ds, "circle.reg", field_parameters={...})
MakeRegion ==
    /\ Ready("region")
    /\ LET s == XrayNotebook[xrayCell]
       IN  objects' = DictSet(objects, s.name, DataObject(s, NotSet))
    /\ xrayCell' = xrayCell + 1
    /\ UNCHANGED <<primary_header, field_info, exposure_time, plots,
                   pending, evaluated, otherThanXray>>

\* yt.ProfilePlot(my_sphere, ...), yt.PhasePlot(my_sphere, ...),
\* circle_reg.quantities.weighted_average_quantity(...): the fields are
\* evaluated on a data object made before
EvaluateOn ==
    /\ Ready("on")
    /\ LET s == XrayNotebook[xrayCell]
       IN  pending' = [k \in 1..Len(s.fields) |->
                          [object |-> s.name, key |-> s.fields[k]]]
    /\ xrayCell' = xrayCell + 1
    /\ UNCHANGED <<primary_header, field_info, exposure_time, objects,
                   plots, evaluated, otherThanXray>>

\* radial_profile.set_xlim(3, 100.0); radial_profile was made of my_sphere
SetXlim ==
    /\ Ready("set_xlim")
    /\ plots' = DictSet(plots, XrayNotebook[xrayCell].name,
                        [source |-> "my_sphere", xlim |-> ProfileXlim])
    /\ xrayCell' = xrayCell + 1
    /\ UNCHANGED <<primary_header, field_info, exposure_time, objects,
                   pending, evaluated, otherThanXray>>

\* ebounds = [(0.1, 2.0), (2.0, 5.0)]; setup_counts_fields(ds2, ebounds)
SetupCounts ==
    /\ Ready("setup_counts_fields")
    /\ LET s == XrayNotebook[xrayCell]
       IN  field_info' =
               DictSet(field_info, s.ds,
                       field_info[s.ds] \o SetupCountsFields(Ebounds))
    /\ xrayCell' = xrayCell + 1
    /\ UNCHANGED <<primary_header, exposure_time, objects, plots, pending,
                   evaluated, otherThanXray>>

\* the next field of a plot or quantity is evaluated on its data object,
\* and with it every field its function reads
EvaluateField ==
    /\ pending # <<>>
    /\ LET obj == pending[1].object
           d == objects[obj].ds
           fld == Resolve(d, pending[1].key)
       IN  evaluated' =
               evaluated
                   \cup {Evaluation(d, obj, t) :
                            t \in Touched(d, fld, Len(field_info[d]))}
    /\ pending' = Tail(pending)
    /\ UNCHANGED <<primary_header, field_info, exposure_time, objects,
                   plots, xrayCell, otherThanXray>>

NextXray ==
    \/ LoadFits
    \/ AddField
    \/ GetExposureTime
    \/ Build
    \/ MakeSphere
    \/ SetFieldParameter
    \/ MakeRegion
    \/ EvaluateOn
    \/ SetXlim
    \/ SetupCounts
    \/ EvaluateField

SpecXray == InitXray /\ [][NextXray]_vars

\* the derived fields whose values depend on the exposure time
ExposureFields == {Counts, PseudoPressure, PseudoEntropy}

\* C16: whenever counts, pseudo_pressure or pseudo_entropy is evaluated on
\* a data object, that object already has the field parameter
\* exposure_time, set to the exposure of the primary header.
C16_ExposureTimeSetBeforeEvaluation ==
    \A e \in evaluated :
        e.field \in ExposureFields =>
            /\ "exposure_time" \in DOMAIN e.field_parameters
            /\ e.field_parameters["exposure_time"] # NotSet
            /\ e.field_parameters["exposure_time"] = primary_header.exposure

\* the notebook has run to its end and counts was evaluated on the slice,
\* the sphere, the ds9 region and the projection
C16_Witness ==
    /\ XrayDone
    /\ \A obj \in {"slc", "my_sphere", "circle_reg", "prj"} :
          \E e \in evaluated :
              e.ds = "ds" /\ e.object = obj /\ e.field = Counts

\* the derived fields that evaluating fld evaluates after fld itself
ReadsTransitively(d, fld) ==
    UNION {Touched(d, r, Len(field_info[d])) : r \in Reads(d, fld)}

\* C17: at every moment each derived field added to ds reads only on-disk
\* fits fields and derived fields added before it, so counts comes before
\* pseudo_pressure and pseudo_entropy; counts reads only fits fields and
\* the field parameter exposure_time; no derived field reads itself,
\* directly or through other fields.
C17_FieldsAddedInDependencyOrder ==
    "ds" \in DOMAIN field_info =>
        LET added == field_info["ds"]
        IN  \A k \in DOMAIN added :
                /\ \A r \in added[k].reads :
                      \/ r \in OnDiskFields("ds")
                      \/ \E j \in 1..(k - 1) : added[j].name = r
                /\ added[k].name \in {PseudoPressure, PseudoEntropy} =>
                      \E j \in 1..(k - 1) : added[j].name = Counts
                /\ added[k].name = Counts =>
                      /\ added[k].reads \subseteq OnDiskFields("ds")
                      /\ \A r \in added[k].reads : r[1] = "fits"
                      /\ added[k].parameters = {"exposure_time"}
                /\ added[k].name \notin ReadsTransitively("ds", added[k].name)

\* the three derived fields have been added
C17_Witness ==
    /\ "ds" \in DOMAIN field_info
    /\ {field_info["ds"][k].name : k \in DOMAIN field_info["ds"]}
           = ExposureFields

\* the index in XrayNotebook of the setup_counts_fields call
SetupCountsCell ==
    CHOOSE k \in 1..NStatements : XrayNotebook[k].op = "setup_counts_fields"

\* C18: once setup_counts_fields(ds2, ebounds) has run, ds2 has one derived
\* field for each pair of ebounds, named counts_0.1-2.0 and counts_2.0-5.0;
\* every plot of ds2 is built of fields ds2 knows by then, and the two
\* SlicePlots evaluate exactly those two counts fields.
C18_BandFieldsExistBeforePlots ==
    /\ xrayCell > SetupCountsCell =>
          /\ Len(field_info["ds2"]) = Len(Ebounds)
          /\ \A b \in 1..Len(Ebounds) :
                field_info["ds2"][b].name = BandFields[b]
    /\ (Ready("build") /\ XrayNotebook[xrayCell].ds = "ds2") =>
          Range(XrayNotebook[xrayCell].fields) \subseteq KnownFields("ds2")
    /\ \A e \in evaluated : e.ds = "ds2" => e.known
    /\ \A e \in evaluated :
          (e.ds = "ds2" /\ e.object = "slc" /\ e.field[1] = "gas") =>
              e.field \in Range(BandFields)

\* both SlicePlots of ds2 have been built: each band field was evaluated
\* without and with the field parameter sigma
C18_Witness ==
    /\ XrayDone
    /\ \A b \in 1..Len(BandFields) :
          /\ \E e \in evaluated :
                /\ e.ds = "ds2" /\ e.field = BandFields[b]
                /\ "sigma" \in DOMAIN e.field_parameters
          /\ \E e \in evaluated :
                /\ e.ds = "ds2" /\ e.field = BandFields[b]
                /\ "sigma" \notin DOMAIN e.field_parameters

\* C19: the sphere around the flux maximum has a radius of 150 pixels and
\* the x limits of the radial profile lie within that radius.
C19_SphereRadiusIs150 ==
    "my_sphere" \in DOMAIN objects =>
        /\ objects["my_sphere"].radius = RadiusInComment
        /\ "radial_profile" \in DOMAIN plots =>
              /\ 0 <= plots["radial_profile"].xlim[1]
              /\ plots["radial_profile"].xlim[1]
                     <= plots["radial_profile"].xlim[2]
              /\ plots["radial_profile"].xlim[2]
                     <= objects["my_sphere"].radius
====
